---- MODULE Spec2Model ----
(***************************************************************************)
(* A model of rynamodb, the in-memory DynamoDB emulator: the table manager *)
(* (account -> region -> tables), the table engine (partitions of items),  *)
(* the key-condition pipeline (parse, placeholder visitor, evaluation) and *)
(* the request handlers that run under one readers-writer lock.            *)
(*                                                                         *)
(* Strings are atomic here, so a text with a sigil ("#K", ":v") is the     *)
(* pair <<sigil, identifier>>: stripping and prefixing a sigil are then    *)
(* real operations.  Option<T> is a sequence of length 0 or 1.             *)
(***************************************************************************)
EXTENDS Integers, Sequences, FiniteSets, TLC

\* manager:  the TableManager behind the lock
\* poisoned: whether a writer panicked while it held the lock
\* req:      the request whose response is on its way to the client
\* resp:     that response
\* lock:     the guards of the RwLock that are held
\* writer:   the task of a write request: where it is, what it has left to do
\* reader:   the task of a read request: where it is, what it has seen
\* rx:       the messages in the channel of the sync actor, oldest first
\* actor:    where run_my_actor is: "recv", "handle" or "returned"
\* cur:      the message the actor took from the channel and is handling
\* senders:  per handle of the actor, the task that owns it
\* accepted: the messages the channel took, in the order their sends completed
\* handled:  the messages given to handle_message, in order
\* spun:     whether blocking_recv has returned None
VARIABLES manager, poisoned, req, resp, lock, writer, reader,
          rx, actor, cur, senders, accepted, handled, spun

serverVars == <<manager, poisoned, req, resp, lock, writer, reader>>

actorVars == <<rx, actor, cur, senders, accepted, handled, spun>>

vars == <<serverVars, actorVars>>

----------------------------------------------------------------------------
(* Bounds of the model *)

\* tables kept by the manager at any time
MaxTables == 2
\* items stored by the manager, over all tables
MaxItems == 2
\* messages one task sends to the sync actor
MaxSends == 5

----------------------------------------------------------------------------
(* Values *)

None == <<>>
Some(x) == <<x>>

\* HashMap::new()
EmptyMap == [k \in {} |-> {}]

DEFAULT_ACCOUNT_ID == "000000000000"
UsEast1 == "us-east-1"

HASH == "HASH"
RANGE == "RANGE"

S(v) == [t |-> "S", v |-> v]
N(v) == [t |-> "N", v |-> v]

\* the strings used as key values
Str == {"a", "b"}

TableNames == {"t1", "t2"}

\* the items a client sends: attribute name -> AttributeValue.  Three can
\* be stored (two sort keys in partition a, one item in partition b), one
\* lacks the partition key, one has a number as key.
ItemSet ==
  { ("pk" :> S("a")) @@ ("sk" :> S("a")),
    ("pk" :> S("a")) @@ ("sk" :> S("b")),
    ("pk" :> S("b")) @@ ("sk" :> S("a")),
    ("sk" :> S("a")),
    ("pk" :> N("a")) @@ ("sk" :> S("a")) }

\* the key schemas a client sends with CreateTable
KeySchemas ==
  { <<[attribute_name |-> "pk", key_type |-> HASH]>>,
    <<[attribute_name |-> "pk", key_type |-> HASH],
      [attribute_name |-> "sk", key_type |-> RANGE]>>,
    <<[attribute_name |-> "sk", key_type |-> RANGE],
      [attribute_name |-> "pk", key_type |-> HASH]>> }

----------------------------------------------------------------------------
(* Sequence helpers *)

\* the elements e of s with e \in keep, in order (Vec::iter().filter().collect())
RECURSIVE SelectSeqOf(_, _)
SelectSeqOf(s, keep) ==
  IF s = <<>> THEN <<>>
  ELSE IF Head(s) \in keep THEN <<Head(s)>> \o SelectSeqOf(Tail(s), keep)
       ELSE SelectSeqOf(Tail(s), keep)

Range(s) == { s[i] : i \in DOMAIN s }

\* the sum of f[x] over the finite set D
RECURSIVE SumOver(_, _)
SumOver(f, D) ==
  IF D = {} THEN 0
  ELSE LET x == CHOOSE y \in D : TRUE IN f[x] + SumOver(f, D \ {x})

----------------------------------------------------------------------------
(* Table and Partition *)

\* TableOptions::from(CreateTableInput): the last HASH entry names the
\* partition key, the last RANGE entry the sort key; a schema without HASH
\* leaves the partition key empty and is not rejected.
RECURSIVE KeyOfType(_, _, _)
KeyOfType(schema, kt, acc) ==
  IF schema = <<>> THEN acc
  ELSE KeyOfType(Tail(schema), kt,
                 IF Head(schema).key_type = kt
                 THEN Some(Head(schema).attribute_name) ELSE acc)

TableOptions(input) ==
  LET pk == KeyOfType(input.key_schema, HASH, None) IN
  [ name          |-> input.table_name,
    partition_key |-> IF pk = None THEN "" ELSE pk[1],
    sort_key      |-> KeyOfType(input.key_schema, RANGE, None) ]

\* the text arn:aws:dynamodb:{region}:{account}:table/{name}, by its parts
Arn(region, account, name) == <<"arn:aws:dynamodb", region, account, "table", name>>

\* Table::new: a table without partitions.  The arn is the same text for
\* every table.
NewTable(options) ==
  [ name          |-> options.name,
    partition_key |-> options.partition_key,
    sort_key      |-> options.sort_key,
    arn           |-> Arn("eu-west-2", "678133472802",
                          "table-d787c77d-76d4-473e-8165-b006241c6a5d"),
    partitions    |-> EmptyMap ]

\* Partition::insert that keeps the new row only
PartitionInsertAlone(rows, attributes) == <<attributes>>

\* Partition::insert that puts the row in front
PartitionInsertFirst(rows, attributes) == <<attributes>> \o rows

\* Partition::insert: push the row at the end
PartitionInsert(rows, attributes) == Append(rows, attributes)

\* Table::insert without the check of the partition key: an item that
\* lacks it is stored in the partition of the empty string
TableInsertUnkeyed(table, attributes) ==
  LET index == IF table.partition_key \in DOMAIN attributes
               THEN attributes[table.partition_key].v ELSE ""
      old == IF index \in DOMAIN table.partitions
             THEN table.partitions[index] ELSE <<>>
  IN [kind  |-> "ok",
      error |-> "",
      table |-> [table EXCEPT !.partitions =
                   [k \in DOMAIN table.partitions \cup {index} |->
                      IF k = index THEN Append(old, attributes)
                      ELSE table.partitions[k]]]]

\* Table::insert as it would be if the key of any type were turned into the
\* partition index (the to_string() of the first table module)
TableInsertAnyType(table, attributes) ==
  IF table.partition_key \notin DOMAIN attributes
  THEN [kind |-> "err", error |-> "MissingPartitionKey", table |-> table]
  ELSE LET pkv == attributes[table.partition_key]
           old == IF pkv.v \in DOMAIN table.partitions
                  THEN table.partitions[pkv.v] ELSE <<>>
       IN [kind  |-> "ok",
           error |-> "",
           table |-> [table EXCEPT !.partitions =
                        [k \in DOMAIN table.partitions \cup {pkv.v} |->
                           IF k = pkv.v THEN Append(old, attributes)
                           ELSE table.partitions[k]]]]

\* Table::insert that keeps no partition but the one of the new row
TableInsertSolePartition(table, attributes) ==
  IF table.partition_key \notin DOMAIN attributes
  THEN [kind |-> "err", error |-> "MissingPartitionKey", table |-> table]
  ELSE LET pkv == attributes[table.partition_key] IN
       IF pkv.t = "S"
       THEN LET old == IF pkv.v \in DOMAIN table.partitions
                       THEN table.partitions[pkv.v] ELSE <<>>
            IN [kind  |-> "ok",
                error |-> "",
                table |-> [table EXCEPT !.partitions =
                             [k \in {pkv.v} |-> PartitionInsert(old, attributes)]]]
       ELSE [kind |-> "panic", error |-> "todo", table |-> table]

\* Table::insert.  The result is ok, an error, or a panic (todo!() on a
\* partition key that is not of type S).
TableInsert(table, attributes) ==
  IF table.partition_key \notin DOMAIN attributes
  THEN [kind |-> "err", error |-> "MissingPartitionKey", table |-> table]
  ELSE LET pkv == attributes[table.partition_key] IN
       IF pkv.t = "S"
       THEN LET old == IF pkv.v \in DOMAIN table.partitions
                       THEN table.partitions[pkv.v] ELSE <<>>
                new == PartitionInsert(old, attributes)
            IN [kind  |-> "ok",
                error |-> "",
                table |-> [table EXCEPT !.partitions =
                             [k \in DOMAIN table.partitions \cup {pkv.v} |->
                                IF k = pkv.v THEN new ELSE table.partitions[k]]]]
       ELSE [kind |-> "panic", error |-> "todo", table |-> table]

\* Table::statistics
statistics(table) == [num_partitions |-> Cardinality(DOMAIN table.partitions)]

\* the number of rows stored in a table
RowCount(table) ==
  SumOver([k \in DOMAIN table.partitions |-> Len(table.partitions[k])],
          DOMAIN table.partitions)

----------------------------------------------------------------------------
(* Table manager *)

\* TableManager::default()
EmptyManager == [per_account |-> EmptyMap]

\* the Vec of tables of (account, region), empty when the entry is absent
TablesIn(m, account, region) ==
  IF account \in DOMAIN m.per_account
  THEN IF region \in DOMAIN m.per_account[account].tables
       THEN m.per_account[account].tables[region] ELSE <<>>
  ELSE <<>>

\* the (account, region, index) of every table, in the order of the nested
\* loops of get_table / get_table_mut / table_names
RECURSIVE SlotsOfRegions(_, _, _)
SlotsOfRegions(m, account, regions) ==
  IF regions = {} THEN <<>>
  ELSE LET r == CHOOSE x \in regions : TRUE IN
       [i \in 1..Len(TablesIn(m, account, r)) |-> <<account, r, i>>]
       \o SlotsOfRegions(m, account, regions \ {r})

RECURSIVE SlotsOfAccounts(_, _)
SlotsOfAccounts(m, accounts) ==
  IF accounts = {} THEN <<>>
  ELSE LET a == CHOOSE x \in accounts : TRUE IN
       SlotsOfRegions(m, a, DOMAIN m.per_account[a].tables)
       \o SlotsOfAccounts(m, accounts \ {a})

Slots(m) == SlotsOfAccounts(m, DOMAIN m.per_account)

TableAt(m, slot) == m.per_account[slot[1]].tables[slot[2]][slot[3]]

\* every table of the manager, in iteration order
AllTables(m) == [i \in 1..Len(Slots(m)) |-> TableAt(m, Slots(m)[i])]

\* new_table that keeps one table per region: the new table takes the place
\* of the tables of (account, region)
new_tableReplacing(m, account, region, input) ==
  LET table == NewTable(TableOptions(input))
      oldAcc == IF account \in DOMAIN m.per_account
                THEN m.per_account[account] ELSE [tables |-> EmptyMap]
      newAcc == [tables |->
                   [r \in DOMAIN oldAcc.tables \cup {region} |->
                      IF r = region THEN <<table>> ELSE oldAcc.tables[r]]]
  IN [manager |-> [per_account |->
                     [a \in DOMAIN m.per_account \cup {account} |->
                        IF a = account THEN newAcc ELSE m.per_account[a]]],
      table   |-> table]

\* TableManager::new_table: build the table and push it on the Vec of
\* (account, region); no check that the name is free, no schema check.
new_table(m, account, region, input) ==
  LET table == NewTable(TableOptions(input))
      oldAcc == IF account \in DOMAIN m.per_account
                THEN m.per_account[account] ELSE [tables |-> EmptyMap]
      newAcc == [tables |->
                   [r \in DOMAIN oldAcc.tables \cup {region} |->
                      IF r = region
                      THEN Append(TablesIn(m, account, region), table)
                      ELSE oldAcc.tables[r]]]
  IN [manager |-> [per_account |->
                     [a \in DOMAIN m.per_account \cup {account} |->
                        IF a = account THEN newAcc ELSE m.per_account[a]]],
      table   |-> table]

\* the slot of the first table called table_name, or None
FindSlot(m, table_name) ==
  LET sl == Slots(m)
      hits == { i \in 1..Len(sl) : TableAt(m, sl[i]).name = table_name }
  IN IF hits = {} THEN None
     ELSE Some(sl[CHOOSE i \in hits : \A j \in hits : i <= j])

\* TableManager::get_table / get_table_mut: the first match, or None
get_table(m, table_name) ==
  LET s == FindSlot(m, table_name) IN
  IF s = None THEN None ELSE Some(TableAt(m, s[1]))

\* the manager with the table at slot replaced (a write through the
\* &mut Table that get_table_mut returns)
WithTable(m, slot, table) ==
  [m EXCEPT !.per_account[slot[1]].tables[slot[2]][slot[3]] = table]

\* TableManager::table_names
table_names(m) == [i \in 1..Len(AllTables(m)) |-> AllTables(m)[i].name]

\* TablesPerRegion::remove with the test of retain() inverted: every region
\* keeps the tables of that name
TablesPerRegionRemoveOthers(acc, table_name) ==
  [tables |-> [r \in DOMAIN acc.tables |->
     SelectSeqOf(acc.tables[r],
                 { t \in Range(acc.tables[r]) : t.name = table_name })]]

\* TablesPerRegion::remove: every region keeps the tables with another name
TablesPerRegionRemove(acc, table_name) ==
  [tables |-> [r \in DOMAIN acc.tables |->
     SelectSeqOf(acc.tables[r],
                 { t \in Range(acc.tables[r]) : t.name # table_name })]]

\* delete_table that clears every region instead of filtering it
delete_tableAll(m, table_name) ==
  [per_account |-> [a \in DOMAIN m.per_account |->
     [tables |-> [r \in DOMAIN m.per_account[a].tables |-> <<>>]]]]

\* TableManager::delete_table: remove the name from every account
delete_table(m, table_name) ==
  [per_account |-> [a \in DOMAIN m.per_account |->
     TablesPerRegionRemove(m.per_account[a], table_name)]]

\* the number of rows stored by the manager
TotalRows(m) ==
  LET ts == AllTables(m) IN
  SumOver([i \in DOMAIN ts |-> RowCount(ts[i])], DOMAIN ts)

----------------------------------------------------------------------------
(* Reads of a table *)

\* the rows of the partitions in keys, partition after partition
RECURSIVE RowsOf(_, _)
RowsOf(partitions, keys) ==
  IF keys = {} THEN <<>>
  ELSE LET k == CHOOSE x \in keys : TRUE IN
       partitions[k] \o RowsOf(partitions, keys \ {k})

\* Table::scan: every row of every partition
TableScan(table) ==
  [kind |-> "ok", items |-> RowsOf(table.partitions, DOMAIN table.partitions)]

\* the first row of rows that is in keep, or None
FirstOf(rows, keep) ==
  LET hits == SelectSeqOf(rows, keep) IN
  IF hits = <<>> THEN None ELSE Some(Head(hits))

\* Table::get_item: the partition of the key's partition-key string; its
\* first row when the table has no sort key, else its first row whose
\* sort-key attribute is the string of the key's sort key.
TableGetItem(table, key) ==
  IF table.partition_key \notin DOMAIN key THEN None
  ELSE LET pkv == key[table.partition_key] IN
       IF pkv.t # "S" \/ pkv.v \notin DOMAIN table.partitions THEN None
       ELSE LET rows == table.partitions[pkv.v] IN
            IF table.sort_key = None
            THEN FirstOf(rows, Range(rows))
            ELSE LET sk == table.sort_key[1] IN
                 IF sk \notin DOMAIN key THEN None
                 ELSE FirstOf(rows, { row \in Range(rows) :
                                        /\ sk \in DOMAIN row
                                        /\ row[sk].t = "S"
                                        /\ key[sk].t = "S"
                                        /\ row[sk].v = key[sk].v })

----------------------------------------------------------------------------
(* Key conditions: text, AST, parser *)

\* A name in an expression is <<sigil, identifier>>: <<"", "pk">> is the
\* column pk, <<"#", "K">> the text #K and <<":", "v">> the text :v.
Col(id) == <<"", id>>
Hash(id) == <<"#", id>>
Colon(id) == <<":", id>>

\* format!("#{key}") and format!(":{key}")
NameKey(key) == <<"#", key>>
ValueKey(key) == <<":", key>>

Eq == "Eq"
And == "And"

Binop(op, lhs, rhs) == [node |-> "Binop", op |-> op, lhs |-> lhs, rhs |-> rhs]
Attribute(str) == [node |-> "Attribute", s |-> str]
Placeholder(str) == [node |-> "Placeholder", s |-> str]
FunctionCall(name, args) == [node |-> "FunctionCall", name |-> name, args |-> args]

\* a comparison `key = value` and a call `begins_with(key, value)`
Cmp(key, value) == [kind |-> "cmp", key |-> key, value |-> value]
Fn(key, value) == [kind |-> "fn", key |-> key, value |-> value]

\* key := column_name | '#' ident
KeyOk(tok) == tok[1] \in {"", "#"}
\* value := column_name | ':' ident
ValueOk(tok) == tok[1] \in {"", ":"}

\* a column name is an Attribute, a placeholder loses its sigil
OperandNode(tok) == IF tok[1] = "" THEN Attribute(tok[2]) ELSE Placeholder(tok[2])

ConditionNode(c) ==
  IF c.kind = "cmp"
  THEN Binop(Eq, OperandNode(c.key), OperandNode(c.value))
  ELSE FunctionCall("begins_with", <<OperandNode(c.key), OperandNode(c.value)>>)

\* queries::parse: condition | condition AND condition.  An expression is
\* the sequence of its conditions; any other text is a parse error.
parse(expr) ==
  IF /\ Len(expr) \in {1, 2}
     /\ \A i \in DOMAIN expr : KeyOk(expr[i].key) /\ ValueOk(expr[i].value)
  THEN IF Len(expr) = 1
       THEN [kind |-> "ok", ast |-> ConditionNode(expr[1])]
       ELSE [kind |-> "ok",
             ast  |-> Binop(And, ConditionNode(expr[1]), ConditionNode(expr[2]))]
  ELSE [kind |-> "err", error |-> "ParseError"]

----------------------------------------------------------------------------
(* Placeholder visitor *)

PANIC == [node |-> "PANIC"]

\* Option<HashMap>::as_ref().and_then(|m| m.get(key))
OptGet(optmap, key) ==
  IF optmap = None THEN None
  ELSE IF key \in DOMAIN optmap[1] THEN Some(optmap[1][key]) ELSE None

\* HashMap<AttributeType, String>::values().next()
FirstValue(typed) ==
  IF DOMAIN typed = {} THEN None
  ELSE Some(typed[CHOOSE t \in DOMAIN typed : TRUE])

\* NodeVisitor::visit_placeholder: "#key" in the names first, then ":key"
\* in the values; an empty value map and a missing placeholder panic.
visit_placeholder(n, names, values) ==
  LET key == n.s
      byName == OptGet(names, NameKey(key))
      byValue == OptGet(values, ValueKey(key))
  IN IF byName # None THEN Attribute(byName[1])
     ELSE IF byValue # None
          THEN IF FirstValue(byValue[1]) = None THEN PANIC
               ELSE Attribute(FirstValue(byValue[1])[1])
          ELSE PANIC

\* Visitor::visit_binop / walk_binop: visit lhs, then rhs; function calls
\* and attributes are left as they are.
RECURSIVE visit_binop(_, _, _)
visit_binop(n, names, values) ==
  LET child(c) ==
        IF c.node = "Binop" THEN visit_binop(c, names, values)
        ELSE IF c.node = "Placeholder" THEN visit_placeholder(c, names, values)
        ELSE c
      l == child(n.lhs)
      r == child(n.rhs)
  IN IF l = PANIC \/ r = PANIC THEN PANIC
     ELSE [n EXCEPT !.lhs = l, !.rhs = r]

\* NodeVisitor::visit
visit(ast, names, values) ==
  IF ast.node = "Binop" THEN visit_binop(ast, names, values)
  ELSE IF ast.node = "Placeholder" THEN visit_placeholder(ast, names, values)
  ELSE ast

----------------------------------------------------------------------------
(* Evaluation of a key condition *)

Ok(items) == [kind |-> "ok", items |-> items]
Err(error) == [kind |-> "err", error |-> error]
Panic == [kind |-> "panic"]

\* expression_attribute_names.get("#key").ok_or(NoAttributeName(key))
NameOf(names, key) ==
  IF NameKey(key) \in DOMAIN names
  THEN [kind |-> "ok", s |-> names[NameKey(key)]]
  ELSE [kind |-> "err", error |-> "NoAttributeName"]

\* expression_attribute_values.get(":key").ok_or(NoAttributeValue(key))?
\*   .values().next().ok_or(empty)
ValueOf(values, key, empty) ==
  IF ValueKey(key) \in DOMAIN values
  THEN IF FirstValue(values[ValueKey(key)]) = None
       THEN [kind |-> "err", error |-> empty]
       ELSE [kind |-> "ok", s |-> FirstValue(values[ValueKey(key)])[1]]
  ELSE [kind |-> "err", error |-> "NoAttributeValue"]

\* the filter of Partition::query without its comparison: every row that
\* has the attribute key
RowsMatchingAny(rows, key, value) ==
  IF \E i \in DOMAIN rows : key \in DOMAIN rows[i] /\ rows[i][key].t # "S"
  THEN Panic
  ELSE Ok(SelectSeqOf(rows, { row \in Range(rows) : key \in DOMAIN row }))

\* the rows whose attribute key is the string value; a row whose attribute
\* is not of type S is a todo!()
RowsMatching(rows, key, value) ==
  IF \E i \in DOMAIN rows : key \in DOMAIN rows[i] /\ rows[i][key].t # "S"
  THEN Panic
  ELSE Ok(SelectSeqOf(rows, { row \in Range(rows) :
                                key \in DOMAIN row /\ row[key].v = value }))

\* Partition::query: the sort-key condition on the rows of one partition
PartitionQuery(rows, ast, names, values) ==
  IF ast.node # "Binop" THEN Panic
  ELSE IF ast.op # Eq THEN Panic
  ELSE IF ast.lhs.node = "Attribute" /\ ast.rhs.node = "Attribute"
       THEN RowsMatching(rows, ast.lhs.s, ast.rhs.s)
  ELSE IF ast.lhs.node = "Placeholder" /\ ast.rhs.node = "Attribute"
       THEN LET key == NameOf(names, ast.lhs.s) IN
            IF key.kind = "err" THEN Err(key.error)
            ELSE RowsMatching(rows, key.s, ast.rhs.s)
  ELSE IF ast.lhs.node = "Attribute" /\ ast.rhs.node = "Placeholder"
       THEN LET value == ValueOf(values, ast.rhs.s, "InvalidAttributeMap") IN
            IF value.kind = "err" THEN Err(value.error)
            ELSE RowsMatching(rows, ast.lhs.s, value.s)
  ELSE IF ast.lhs.node = "Placeholder" /\ ast.rhs.node = "Placeholder"
       THEN LET key == NameOf(names, ast.lhs.s)
                value == ValueOf(values, ast.rhs.s, "InvalidAttributeMap")
            IN IF key.kind = "err" THEN Err(key.error)
               ELSE IF value.kind = "err" THEN Err(value.error)
               ELSE RowsMatching(rows, key.s, value.s)
  ELSE Panic

\* self.partitions.get(value): the rows of the partition, or none
PartitionRows(table, value) ==
  IF value \in DOMAIN table.partitions THEN table.partitions[value] ELSE <<>>

\* Table::query, the match on the tree: `K = V` alone selects a partition
\* and checks K; under AND the left side selects the partition without a
\* check of its key, and the right side goes to the partition.
QueryTree(table, ast, names, values) ==
  IF ast.node = "Binop" /\ ast.op = Eq
  THEN IF ast.lhs.node = "Attribute" /\ ast.rhs.node = "Attribute"
       THEN IF ast.lhs.s # table.partition_key THEN Err("InvalidPartitionKey")
            ELSE Ok(PartitionRows(table, ast.rhs.s))
       ELSE IF ast.lhs.node = "Placeholder" /\ ast.rhs.node = "Placeholder"
       THEN LET key == NameOf(names, ast.lhs.s)
                value == ValueOf(values, ast.rhs.s, "InvalidAttributeMap")
            IN IF key.kind = "err" THEN Err(key.error)
               ELSE IF key.s # table.partition_key THEN Err("InvalidPartitionKey")
               ELSE IF value.kind = "err" THEN Err(value.error)
               ELSE Ok(PartitionRows(table, value.s))
       ELSE IF ast.lhs.node = "Attribute" /\ ast.rhs.node = "Placeholder"
       THEN LET value == ValueOf(values, ast.rhs.s, "InvalidPartitionKey") IN
            IF ast.lhs.s # table.partition_key THEN Err("InvalidPartitionKey")
            ELSE IF value.kind = "err" THEN Err(value.error)
            ELSE Ok(PartitionRows(table, value.s))
       ELSE IF ast.lhs.node = "Placeholder" /\ ast.rhs.node = "Attribute"
       THEN LET key == NameOf(names, ast.lhs.s) IN
            IF key.kind = "err" THEN Err(key.error)
            ELSE IF key.s # table.partition_key THEN Err("InvalidPartitionKey")
            ELSE Ok(PartitionRows(table, ast.rhs.s))
       ELSE Panic
  ELSE IF ast.node = "Binop" /\ ast.op = And
  THEN IF ast.lhs.node # "Binop" THEN Panic
       ELSE IF ast.lhs.lhs.node = "Attribute" /\ ast.lhs.rhs.node = "Attribute"
       THEN IF ast.lhs.rhs.s \notin DOMAIN table.partitions
            THEN Err("InvalidPartitionKey")
            ELSE PartitionQuery(table.partitions[ast.lhs.rhs.s], ast.rhs,
                                names, values)
       ELSE IF ast.lhs.lhs.node = "Attribute" /\ ast.lhs.rhs.node = "Placeholder"
       THEN LET value == ValueOf(values, ast.lhs.rhs.s, "InvalidAttributeMap") IN
            IF value.kind = "err" THEN Err(value.error)
            ELSE IF value.s \notin DOMAIN table.partitions
            THEN Err("InvalidPartitionKey")
            ELSE PartitionQuery(table.partitions[value.s], ast.rhs,
                                names, values)
       ELSE Panic
  ELSE Panic

\* Option<HashMap> as the map the match on the tree reads
MapOf(optmap) == IF optmap = None THEN EmptyMap ELSE optmap[1]

\* Table::query: parse the expression, substitute the placeholders, match
TableQuery(table, expr, names, values) ==
  LET parsed == parse(expr) IN
  IF parsed.kind = "err" THEN Err(parsed.error)
  ELSE LET ast == visit(parsed.ast, names, values) IN
       IF ast = PANIC THEN Panic
       ELSE QueryTree(table, ast, MapOf(names), MapOf(values))

----------------------------------------------------------------------------
(* Responses *)

BAD_REQUEST == 400
INTERNAL_SERVER_ERROR == 500
OK == 200

\* into_response with one arm for all errors: every error is a server error
StatusOfServerError(error) == INTERNAL_SERVER_ERROR

\* ErrorResponse::into_response: the status of each error
StatusOf(error) ==
  IF error \in {"ResourceNotFound", "SerializationError", "InvalidOperation"}
  THEN BAD_REQUEST
  ELSE INTERNAL_SERVER_ERROR

Success(body) == [kind |-> "ok", status |-> OK, body |-> body]

\* an error response; inner is the table error inside a RynamodbError
Failure(error, inner) ==
  [kind |-> "err", status |-> StatusOf(error), error |-> error, inner |-> inner]

\* ErrorResponse::serialize: the JSON body of an error response; name is
\* the table name of a ResourceNotFound, "" when it carries none, and the
\* text (a sequence of its parts) that an InvalidOperation carries
serialize(error, name) ==
  IF error = "ResourceNotFound"
  THEN [ type    |-> "com.amazonaws.dynamodb.v20120810#ResourceNotFoundException",
         message |-> IF name = "" THEN <<"Requested resource not found">>
                     ELSE <<"Requested resource not found: Table: ", name,
                            " not found">> ]
  ELSE IF error = "SerializationError"
  THEN [type |-> "com.amazon.coral.service#SerializationException"]
  ELSE IF error = "MutexUnlock" THEN [error |-> "corrupted internal state"]
  ELSE IF error = "InvalidOperation" THEN [error |-> <<"invalid response: ">> \o name]
  ELSE [error |-> name]

\* the handler panicked: the task is aborted and no response is written
Aborted == [kind |-> "panic"]

\* Partition::item_count: the sum of the sizes of the rows
item_count(rows) ==
  SumOver([i \in DOMAIN rows |-> Cardinality(DOMAIN rows[i])], DOMAIN rows)

\* Table::len
TableLen(table) ==
  SumOver([k \in DOMAIN table.partitions |-> item_count(table.partitions[k])],
          DOMAIN table.partitions)

\* Table::description
description(table) ==
  [ table_name   |-> table.name,
    table_status |-> "ACTIVE",
    item_count   |-> TableLen(table),
    table_arn    |-> table.arn,
    key_schema   |->
      <<[attribute_name |-> table.partition_key, key_type |-> HASH]>>
      \o (IF table.sort_key = None THEN <<>>
          ELSE <<[attribute_name |-> table.sort_key[1], key_type |-> RANGE]>>) ]

----------------------------------------------------------------------------
(* Handlers.  Each takes the manager, the poison flag of its lock and the   *)
(* body of the request (the input it decodes to, or Malformed) and gives   *)
(* the manager, the flag and the response after the request.  A writer     *)
(* that panics poisons the lock; a reader that panics does not.            *)

Outcome(m, p, r) == [manager |-> m, poisoned |-> p, resp |-> r]

MutexUnlock(m) == Outcome(m, TRUE, Failure("MutexUnlock", ""))

\* a body that serde_json::from_str rejects, whatever the shape asked for
Malformed == [body |-> "invalid json"]

\* serde_json::from_str(&body).map_err(|_| ErrorResponse::SerializationError)?
\* on such a body: the handler returns before it asks for the lock
SerializationError(m, p) == Outcome(m, p, Failure("SerializationError", ""))

handle_create_table(m, p, input) ==
  IF input = Malformed THEN SerializationError(m, p)
  ELSE IF p THEN MutexUnlock(m)
  ELSE LET made == new_table(m, DEFAULT_ACCOUNT_ID, UsEast1, input) IN
       Outcome(made.manager, FALSE,
               Success([table_description |-> description(made.table)]))

handle_delete_table(m, p, input) ==
  IF input = Malformed THEN SerializationError(m, p)
  ELSE IF p THEN MutexUnlock(m)
  ELSE Outcome(delete_table(m, input.table_name), FALSE, Success(EmptyMap))

\* handle_put_item that asks for the lock before it decodes the body
handle_put_itemLockFirst(m, p, input) ==
  IF p THEN MutexUnlock(m)
  ELSE IF input = Malformed THEN SerializationError(m, p)
  ELSE LET slot == FindSlot(m, input.table_name) IN
       IF slot = None THEN Outcome(m, FALSE, Failure("ResourceNotFound", ""))
       ELSE LET ins == TableInsert(TableAt(m, slot[1]), input.item) IN
            IF ins.kind = "panic" THEN Outcome(m, TRUE, Aborted)
            ELSE IF ins.kind = "err"
            THEN Outcome(m, FALSE, Failure("RynamodbError", ins.error))
            ELSE Outcome(WithTable(m, slot[1], ins.table), FALSE, Success(EmptyMap))

handle_put_item(m, p, input) ==
  IF input = Malformed THEN SerializationError(m, p)
  ELSE IF p THEN MutexUnlock(m)
  ELSE LET slot == FindSlot(m, input.table_name) IN
       IF slot = None THEN Outcome(m, FALSE, Failure("ResourceNotFound", ""))
       ELSE LET ins == TableInsert(TableAt(m, slot[1]), input.item) IN
            IF ins.kind = "panic" THEN Outcome(m, TRUE, Aborted)
            ELSE IF ins.kind = "err"
            THEN Outcome(m, FALSE, Failure("RynamodbError", ins.error))
            ELSE Outcome(WithTable(m, slot[1], ins.table), FALSE, Success(EmptyMap))

handle_describe_table(m, p, input) ==
  IF input = Malformed THEN SerializationError(m, p)
  ELSE IF p THEN MutexUnlock(m)
  ELSE LET table == get_table(m, input.table_name) IN
       IF table = None
       THEN Outcome(m, FALSE,
                    [Failure("ResourceNotFound", "") EXCEPT !.inner = input.table_name])
       ELSE Outcome(m, FALSE, Success([table |-> description(table[1])]))

handle_list_tables(m, p, input) ==
  IF input = Malformed THEN SerializationError(m, p)
  ELSE IF p THEN MutexUnlock(m)
  ELSE Outcome(m, FALSE, Success([table_names |-> table_names(m)]))

\* QueryOutput with the scanned count left at its default
QueryOutputUnscanned(res) ==
  [items |-> res, count |-> Len(res), scanned_count |-> 0]

\* QueryOutput of a list of rows: count and scanned_count are its length
QueryOutput(res) ==
  [items |-> res, count |-> Len(res), scanned_count |-> Len(res)]

\* handle_scan that takes the table it reads out of the manager
handle_scanTaking(m, p, input) ==
  IF input = Malformed THEN SerializationError(m, p)
  ELSE IF p THEN MutexUnlock(m)
  ELSE LET table == get_table(m, input.table_name) IN
       IF table = None THEN Outcome(m, FALSE, Failure("ResourceNotFound", ""))
       ELSE Outcome(delete_table(m, input.table_name), FALSE,
                    Success(QueryOutput(TableScan(table[1]).items)))

handle_scan(m, p, input) ==
  IF input = Malformed THEN SerializationError(m, p)
  ELSE IF p THEN MutexUnlock(m)
  ELSE LET table == get_table(m, input.table_name) IN
       IF table = None THEN Outcome(m, FALSE, Failure("ResourceNotFound", ""))
       ELSE Outcome(m, FALSE, Success(QueryOutput(TableScan(table[1]).items)))

\* handle_get_item that treats a miss as a missing resource
handle_get_itemOrNotFound(m, p, input) ==
  IF input = Malformed THEN SerializationError(m, p)
  ELSE IF p THEN MutexUnlock(m)
  ELSE LET table == get_table(m, input.table_name) IN
       IF table = None THEN Outcome(m, FALSE, Failure("ResourceNotFound", ""))
       ELSE IF TableGetItem(table[1], input.key) = None
       THEN Outcome(m, FALSE, Failure("ResourceNotFound", ""))
       ELSE Outcome(m, FALSE,
                    Success([item |-> TableGetItem(table[1], input.key)]))

handle_get_item(m, p, input) ==
  IF input = Malformed THEN SerializationError(m, p)
  ELSE IF p THEN MutexUnlock(m)
  ELSE LET table == get_table(m, input.table_name) IN
       IF table = None THEN Outcome(m, FALSE, Failure("ResourceNotFound", ""))
       ELSE Outcome(m, FALSE,
                    Success([item |-> TableGetItem(table[1], input.key)]))

handle_query(m, p, input) ==
  IF input = Malformed THEN SerializationError(m, p)
  ELSE IF p THEN MutexUnlock(m)
  ELSE LET table == get_table(m, input.table_name) IN
       IF table = None THEN Outcome(m, FALSE, Failure("ResourceNotFound", ""))
       ELSE LET res == TableQuery(table[1], input.key_condition_expression,
                                  input.expression_attribute_names,
                                  input.expression_attribute_values)
            IN IF res.kind = "panic" THEN Outcome(m, FALSE, Aborted)
               ELSE IF res.kind = "err"
               THEN Outcome(m, FALSE, Failure("RynamodbError", res.error))
               ELSE Outcome(m, FALSE, Success(QueryOutput(res.items)))

----------------------------------------------------------------------------
(* BatchWriteItem *)

PutRequest(item) == [put_request |-> [item |-> item]]

\* unprocessed_items.entry(table_name).or_default().push(req), r the req
PushUnprocessed(unprocessed, table_name, r) ==
  [t \in DOMAIN unprocessed \cup {table_name} |->
     IF t = table_name
     THEN Append(IF t \in DOMAIN unprocessed THEN unprocessed[t] ELSE <<>>, r)
     ELSE unprocessed[t]]

\* the loop over the requests of one table that exists; done tells whether
\* the loop ran to its end (no insert panicked)
RECURSIVE BatchInsert(_, _, _, _)
BatchInsert(table, table_name, reqs, unprocessed) ==
  IF reqs = <<>>
  THEN [table |-> table, unprocessed |-> unprocessed, done |-> TRUE]
  ELSE LET ins == TableInsert(table, Head(reqs).put_request.item) IN
       IF ins.kind = "panic"
       THEN [table |-> table, unprocessed |-> unprocessed, done |-> FALSE]
       ELSE IF ins.kind = "err"
       THEN BatchInsert(table, table_name, Tail(reqs),
                        PushUnprocessed(unprocessed, table_name, Head(reqs)))
       ELSE BatchInsert(ins.table, table_name, Tail(reqs), unprocessed)

\* the loop over the requests of one table that does not exist
RECURSIVE BatchSkip(_, _, _)
BatchSkip(table_name, reqs, unprocessed) ==
  IF reqs = <<>> THEN unprocessed
  ELSE BatchSkip(table_name, Tail(reqs),
                 PushUnprocessed(unprocessed, table_name, Head(reqs)))

\* TableManager::batch_write_item.  order is the order in which the
\* HashMap request_items hands out its tables.
RECURSIVE batch_write_item(_, _, _, _)
batch_write_item(m, order, request_items, unprocessed) ==
  IF order = <<>>
  THEN [manager |-> m, unprocessed |-> unprocessed, done |-> TRUE]
  ELSE LET table_name == Head(order)
           slot == FindSlot(m, table_name)
       IN IF slot = None
          THEN batch_write_item(m, Tail(order), request_items,
                                BatchSkip(table_name, request_items[table_name],
                                          unprocessed))
          ELSE LET run == BatchInsert(TableAt(m, slot[1]), table_name,
                                      request_items[table_name], unprocessed)
                   after == WithTable(m, slot[1], run.table)
               IN IF run.done
                  THEN batch_write_item(after, Tail(order), request_items,
                                        run.unprocessed)
                  ELSE [manager |-> after, unprocessed |-> run.unprocessed,
                        done |-> FALSE]

handle_batch_write_item(m, p, order, input) ==
  IF input = Malformed THEN SerializationError(m, p)
  ELSE IF p THEN MutexUnlock(m)
  ELSE LET run == batch_write_item(m, order, input.request_items, EmptyMap) IN
       IF run.done
       THEN Outcome(run.manager, FALSE,
                    Success([unprocessed_items |-> Some(run.unprocessed)]))
       ELSE Outcome(run.manager, TRUE, Aborted)

----------------------------------------------------------------------------
(* The dispatcher.  The text of a header is the sequence of its parts      *)
(* between the dots; a message is the sequence of its parts.               *)

\* enum OperationType
OperationTypes ==
  { "CreateTable", "PutItem", "DescribeTable", "DeleteTable", "Query",
    "GetItem", "ListTables", "Scan", "BatchWriteItem" }

\* OperationType::from_str; s is what follows the first dot of the header
from_str(s) ==
  IF Len(s) = 1 /\ s[1] \in OperationTypes
  THEN [kind |-> "ok", name |-> s[1]]
  ELSE [kind |-> "err", error |-> <<"operation ">> \o s \o <<" not handled">>]

\* Operation::try_from(&HeaderValue): splitn(2, '.') gives the version and
\* the operation; the version is kept as it is
try_from(value) ==
  IF Len(value) < 2
  THEN [kind |-> "err", error |-> <<"invalid number of parts">>]
  ELSE LET name == from_str(Tail(value)) IN
       IF name.kind = "err"
       THEN [kind |-> "err", error |-> <<"parsing operation: ">> \o name.error]
       ELSE [kind |-> "ok", version |-> Head(value), name |-> name.name]

\* from_request_parts that takes a request without the header for ListTables
from_request_partsDefault(target) ==
  IF target = None
  THEN [kind |-> "ok", version |-> "", name |-> "ListTables"]
  ELSE LET operation == try_from(target[1]) IN
       IF operation.kind = "err"
       THEN [kind |-> "err", error |-> <<"invalid target string: ">> \o operation.error]
       ELSE operation

\* Operation::from_request_parts: the header x-amz-target, if there is one
from_request_parts(target) ==
  IF target = None THEN [kind |-> "err", error |-> <<"missing target header">>]
  ELSE LET operation == try_from(target[1]) IN
       IF operation.kind = "err"
       THEN [kind |-> "err", error |-> <<"invalid target string: ">> \o operation.error]
       ELSE operation

\* ErrorResponse::InvalidOperation(e)
InvalidOperation(e) ==
  [kind |-> "err", status |-> StatusOf("InvalidOperation"),
   error |-> "InvalidOperation", inner |-> "", details |-> e]

\* handler: the operation of the header, then the handler of the operation
\* on the body; order is the order of the tables of a batch
handler(m, p, target, order, body) ==
  LET operation == from_request_parts(target) IN
  IF operation.kind = "err" THEN Outcome(m, p, InvalidOperation(operation.error))
  ELSE CASE operation.name = "CreateTable" -> handle_create_table(m, p, body)
         [] operation.name = "PutItem" -> handle_put_item(m, p, body)
         [] operation.name = "DescribeTable" -> handle_describe_table(m, p, body)
         [] operation.name = "DeleteTable" -> handle_delete_table(m, p, body)
         [] operation.name = "Query" -> handle_query(m, p, body)
         [] operation.name = "GetItem" -> handle_get_item(m, p, body)
         [] operation.name = "ListTables" -> handle_list_tables(m, p, body)
         [] operation.name = "Scan" -> handle_scan(m, p, body)
         [] operation.name = "BatchWriteItem" ->
              handle_batch_write_item(m, p, order, body)

\* the orders in which a HashMap with the keys D can be iterated
Orders(D) ==
  { o \in UNION { [1..n -> D] : n \in {Cardinality(D)} } :
      \A i, j \in DOMAIN o : i # j => o[i] # o[j] }

----------------------------------------------------------------------------
(* Requests *)

CreateTableInputs ==
  { [table_name |-> n, key_schema |-> ks] : n \in TableNames, ks \in KeySchemas }

TableNameInputs == { [table_name |-> n] : n \in TableNames }

PutItemInputs ==
  { [table_name |-> n, item |-> it] : n \in TableNames, it \in ItemSet }

\* the items of batch requests: one that is stored, one without partition
\* key, one whose partition key is a number
BatchItems ==
  { ("pk" :> S("a")) @@ ("sk" :> S("a")),
    ("sk" :> S("a")),
    ("pk" :> N("a")) @@ ("sk" :> S("a")) }

\* batches of one request, of two requests for one table, and of one
\* request for each of two tables (any item for t1, a storable one for t2)
BatchWriteInputs ==
  { [request_items |-> (n :> <<PutRequest(it)>>)] :
      n \in TableNames, it \in BatchItems }
  \cup
  { [request_items |-> (n :> <<PutRequest(it1), PutRequest(it2)>>)] :
      n \in TableNames, it1 \in BatchItems, it2 \in BatchItems }
  \cup
  { [request_items |-> ("t1" :> <<PutRequest(it)>>)
                       @@ ("t2" :> <<PutRequest(("pk" :> S("a")) @@ ("sk" :> S("a")))>>)] :
      it \in BatchItems }

\* the number of requests of a batch
BatchSize(input) ==
  SumOver([t \in DOMAIN input.request_items |-> Len(input.request_items[t])],
          DOMAIN input.request_items)

KeySet ==
  { ("pk" :> S("a")) @@ ("sk" :> S("a")),
    ("pk" :> S("a")) @@ ("sk" :> S("b")),
    ("pk" :> S("a")) }

GetItemInputs ==
  { [table_name |-> n, key |-> k] : n \in TableNames, k \in KeySet }

\* the identifiers of placeholders and the attribute names of conditions
Idents == {"k", "v"}
KeyNames == {"pk", "sk"}

\* a Query request
QueryInput(n, expr, names, values) ==
  [ table_name                  |-> n,
    key_condition_expression    |-> expr,
    expression_attribute_names  |-> names,
    expression_attribute_values |-> values ]

\* the condition `key = value` in its four forms: ph[1] writes the key as
\* the placeholder #K, ph[2] writes the value as the placeholder :v; the
\* maps define the placeholders the text uses
KeyCondition(ph, K, v, name, value) ==
  [ expr   |-> <<Cmp(IF ph[1] THEN Hash(K) ELSE Col(name),
                     IF ph[2] THEN Colon(v) ELSE Col(value))>>,
    names  |-> IF ph[1] THEN Some(NameKey(K) :> name) ELSE None,
    values |-> IF ph[2] THEN Some(ValueKey(v) :> ("S" :> value)) ELSE None ]

\* the Query request for a condition on table n
QueryOf(n, c) == QueryInput(n, c.expr, c.names, c.values)

\* `key = a` alone in its four forms, the placeholders named alike (#k, :k)
\* or differently (#k, :v)
PartitionOnlyQueries ==
  { QueryOf(n, KeyCondition(ph, "k", v, name, "a")) :
      n \in TableNames, ph \in BOOLEAN \X BOOLEAN, v \in Idents,
      name \in KeyNames }

\* `key = V AND sk = W` and `pk = a AND begins_with(sk, a)` without maps,
\* `pk = :k AND sk = :v` with the values of both placeholders, and
\* `pk = a AND begins_with(#k, :v)` with #k for sk and :v for a
CompositeQueries ==
  { QueryInput(n, <<Cmp(Col(name), Col(V)), Cmp(Col("sk"), Col(W))>>, None, None) :
      n \in TableNames, name \in KeyNames, V \in Str, W \in Str }
  \cup
  { QueryInput(n, <<Cmp(Col("pk"), Col("a")), Fn(Col("sk"), Col("a"))>>, None, None) :
      n \in TableNames }
  \cup
  { QueryInput(n, <<Cmp(Col("pk"), Colon("k")), Cmp(Col("sk"), Colon("v"))>>, None,
               Some((ValueKey("k") :> ("S" :> V)) @@ (ValueKey("v") :> ("S" :> W)))) :
      n \in TableNames, V \in Str, W \in Str }
  \cup
  { QueryInput(n, <<Cmp(Col("pk"), Col("a")), Fn(Hash("k"), Colon("v"))>>,
               Some(NameKey("k") :> "sk"), Some(ValueKey("v") :> ("S" :> "a"))) :
      n \in TableNames }

\* a text that is no condition, and placeholders without maps
BrokenQueries ==
  { QueryInput(n, expr, None, None) :
      n \in TableNames, expr \in {<<>>, <<Cmp(Hash("k"), Colon("v"))>>} }

QueryInputs == PartitionOnlyQueries \cup CompositeQueries \cup BrokenQueries

\* the version parts of headers: the one the SDK sends, and another
Versions == {"DynamoDB_20120810", "DynamoDB_20111205"}

\* the headers x-amz-target of requests: None is a request without it
Targets ==
  { Some(<<v, o>>) : v \in Versions, o \in OperationTypes }
  \cup { None,
         Some(<<"DynamoDB_20120810">>),
         Some(<<"DynamoDB_20120810", "UpdateItem">>),
         Some(<<"DynamoDB_20120810", "Scan", "v2">>) }

----------------------------------------------------------------------------
(* The sync actor: its channel, its messages and its senders *)

\* mpsc::channel(8)
ChannelCapacity == 8

\* the handles of the actor: the one ActorHandle::new returns and a clone
Handles == {"h1", "h2"}

\* enum Message of the binary
MessageKinds == {"Foo", "Shutdown"}

\* enum ShutdownState
Continue == "Continue"
Break == "Break"

NoMessage == [kind |-> "none"]

\* the n-th message of the task that owns handle h
Message(h, n, kind) == [from |-> h, n |-> n, kind |-> kind]

\* Inner::handle_message: Foo is answered and the loop goes on, Shutdown
\* breaks it
handle_message(message) ==
  IF message.kind = "Shutdown" THEN Break ELSE Continue

\* the result of mpsc::Sender::send once its wait is over: an error when the
\* receiver was dropped, which is when run_my_actor has returned
SenderSend(a) == IF a = "returned" THEN "Err" ELSE "Ok"

\* ActorHandle::send that unwraps the result of the channel
sendUnwrapping(result) == IF result = "Err" THEN "panicked" ELSE "returned"

\* ActorHandle::send: let _ = self.sender.send(msg).await
send(result) == "returned"

\* a task that owns a handle and has called send n times
Task(pc, n, msg) == [pc |-> pc, n |-> n, msg |-> msg]

----------------------------------------------------------------------------
(* The server: a handler runs under the lock from its first read to its    *)
(* response; the response then travels to the client.                      *)

\* no request is being answered
Idle == [op |-> "Idle"]
NoResponse == [kind |-> "none"]

\* RwLock::new: no guard is held
Unlocked == [writer |-> FALSE, readers |-> 0]

\* a task that serves no request
NoTask == [pc |-> "idle"]

\* no write request is served; the last one found the manager as start and
\* left the mutations todo unmade
NoWrite(start, todo) == [pc |-> "idle", start |-> start, todo |-> todo]

Init ==
  /\ manager = EmptyManager
  /\ poisoned = FALSE
  /\ req = Idle
  /\ resp = NoResponse
  /\ lock = Unlocked
  /\ writer = NoWrite(EmptyManager, <<>>)
  /\ reader = NoTask
  /\ rx = <<>>
  /\ actor = "recv"
  /\ cur = NoMessage
  /\ senders = [h \in Handles |-> Task("idle", 0, NoMessage)]
  /\ accepted = <<>>
  /\ handled = <<>>
  /\ spun = FALSE

\* the state after the handler of request ran with outcome out
Served(request, out) ==
  /\ manager' = out.manager
  /\ poisoned' = out.poisoned
  /\ req' = request
  /\ resp' = out.resp
  /\ UNCHANGED <<lock, writer, reader, actorVars>>

CreateTable ==
  /\ req = Idle
  /\ Len(AllTables(manager)) < MaxTables
  /\ \E input \in CreateTableInputs :
       Served([op |-> "CreateTable", input |-> input],
              handle_create_table(manager, poisoned, input))

DeleteTable ==
  /\ req = Idle
  /\ \E input \in TableNameInputs :
       Served([op |-> "DeleteTable", input |-> input],
              handle_delete_table(manager, poisoned, input))

PutItem ==
  /\ req = Idle
  /\ TotalRows(manager) < MaxItems
  /\ \E input \in PutItemInputs :
       Served([op |-> "PutItem", input |-> input],
              handle_put_item(manager, poisoned, input))

BatchWriteItem ==
  /\ req = Idle
  /\ \E input \in BatchWriteInputs :
       /\ BatchSize(input) <= MaxItems - TotalRows(manager)
       /\ \E order \in Orders(DOMAIN input.request_items) :
            Served([op |-> "BatchWriteItem", input |-> input, order |-> order],
                   handle_batch_write_item(manager, poisoned, order, input))

DescribeTable ==
  /\ req = Idle
  /\ \E input \in TableNameInputs :
       Served([op |-> "DescribeTable", input |-> input],
              handle_describe_table(manager, poisoned, input))

ListTables ==
  /\ req = Idle
  /\ Served([op |-> "ListTables", input |-> EmptyMap],
            handle_list_tables(manager, poisoned, EmptyMap))

Scan ==
  /\ req = Idle
  /\ \E input \in TableNameInputs :
       Served([op |-> "Scan", input |-> input],
              handle_scan(manager, poisoned, input))

GetItem ==
  /\ req = Idle
  /\ \E input \in GetItemInputs :
       Served([op |-> "GetItem", input |-> input],
              handle_get_item(manager, poisoned, input))

Query ==
  /\ req = Idle
  /\ \E input \in QueryInputs :
       Served([op |-> "Query", input |-> input],
              handle_query(manager, poisoned, input))

\* a request whose header names no operation of the server
UnknownOperation ==
  /\ req = Idle
  /\ \E target \in Targets :
       /\ from_request_parts(target).kind = "err"
       /\ Served([op |-> "UnknownOperation", target |-> target],
                 handler(manager, poisoned, target, <<>>, Malformed))

\* a request for an operation of the server whose body does not decode
MalformedBody ==
  /\ req = Idle
  /\ \E target \in Targets :
       /\ from_request_parts(target).kind = "ok"
       /\ Served([op |-> "MalformedBody", target |-> target],
                 handler(manager, poisoned, target, <<>>, Malformed))

\* the response reaches the client (or, after a panic, the connection closes)
Reply ==
  /\ req # Idle
  /\ req' = Idle
  /\ resp' = NoResponse
  /\ UNCHANGED <<manager, poisoned, lock, writer, reader, actorVars>>

Next ==
  \/ CreateTable
  \/ DeleteTable
  \/ PutItem
  \/ BatchWriteItem
  \/ DescribeTable
  \/ ListTables
  \/ Scan
  \/ GetItem
  \/ Query
  \/ UnknownOperation
  \/ MalformedBody
  \/ Reply

Spec == Init /\ [][Next]_vars

----------------------------------------------------------------------------
(* The server with the requests that the types admit and a client of       *)
(* DynamoDB does not send: a key schema without HASH entry, an item        *)
(* without the sort key of its table.                                      *)

\* a key schema without HASH entry
RangeOnly == <<[attribute_name |-> "sk", key_type |-> RANGE]>>

\* an item without the attribute sk
NoSortKey == ("pk" :> S("a"))

WideCreateTableInputs ==
  CreateTableInputs \cup { [table_name |-> n, key_schema |-> RangeOnly] : n \in TableNames }

WidePutItemInputs ==
  PutItemInputs \cup { [table_name |-> n, item |-> NoSortKey] : n \in TableNames }

WideBatchWriteInputs ==
  BatchWriteInputs
  \cup { [request_items |-> (n :> <<PutRequest(NoSortKey)>>)] : n \in TableNames }

WideCreateTable ==
  /\ req = Idle
  /\ Len(AllTables(manager)) < MaxTables
  /\ \E input \in WideCreateTableInputs :
       Served([op |-> "CreateTable", input |-> input],
              handle_create_table(manager, poisoned, input))

WidePutItem ==
  /\ req = Idle
  /\ TotalRows(manager) < MaxItems
  /\ \E input \in WidePutItemInputs :
       Served([op |-> "PutItem", input |-> input],
              handle_put_item(manager, poisoned, input))

WideBatchWriteItem ==
  /\ req = Idle
  /\ \E input \in WideBatchWriteInputs :
       /\ BatchSize(input) <= MaxItems - TotalRows(manager)
       /\ \E order \in Orders(DOMAIN input.request_items) :
            Served([op |-> "BatchWriteItem", input |-> input, order |-> order],
                   handle_batch_write_item(manager, poisoned, order, input))

WideNext ==
  \/ WideCreateTable
  \/ DeleteTable
  \/ WidePutItem
  \/ WideBatchWriteItem
  \/ DescribeTable
  \/ ListTables
  \/ Scan
  \/ GetItem
  \/ Query
  \/ UnknownOperation
  \/ MalformedBody
  \/ Reply

WideSpec == Init /\ [][WideNext]_vars

----------------------------------------------------------------------------
(* The lock: a write request and a read request that run side by side.     *)
(* The writer changes the manager one mutation at a time while it holds    *)
(* the write guard; the reader looks at the manager while it holds a read  *)
(* guard.                                                                  *)

\* RwLock::write returns when no guard is held
CanWrite(l) == ~l.writer /\ l.readers = 0

\* RwLock::read granted whatever guard is held
CanReadAlways(l) == TRUE

\* RwLock::read returns when no write guard is held
CanRead(l) == ~l.writer

\* the mutations of a write request, in the order the handler makes them
NewTableOf(input) == <<[kind |-> "new_table", input |-> input]>>
DeleteTableOf(input) == <<[kind |-> "delete_table", table_name |-> input.table_name]>>
InsertOf(table_name, item) ==
  <<[kind |-> "insert", table_name |-> table_name, item |-> item]>>

\* the inserts of a batch, table after table in the order of the HashMap
RECURSIVE InsertsOf(_, _)
InsertsOf(order, request_items) ==
  IF order = <<>> THEN <<>>
  ELSE [i \in DOMAIN request_items[Head(order)] |->
          InsertOf(Head(order), request_items[Head(order)][i].put_request.item)[1]]
       \o InsertsOf(Tail(order), request_items)

\* one mutation applied to the manager: done, refused with an error (the
\* table is missing, the insert fails) or a panic
Apply(m, mutation) ==
  IF mutation.kind = "new_table"
  THEN [kind |-> "ok",
        manager |-> new_table(m, DEFAULT_ACCOUNT_ID, UsEast1, mutation.input).manager]
  ELSE IF mutation.kind = "delete_table"
  THEN [kind |-> "ok", manager |-> delete_table(m, mutation.table_name)]
  ELSE LET slot == FindSlot(m, mutation.table_name) IN
       IF slot = None THEN [kind |-> "err", manager |-> m]
       ELSE LET ins == TableInsert(TableAt(m, slot[1]), mutation.item) IN
            [kind    |-> ins.kind,
             manager |-> IF ins.kind = "ok" THEN WithTable(m, slot[1], ins.table)
                         ELSE m]

\* the write requests of the two tasks' clients
LockItems ==
  { ("pk" :> S("a")) @@ ("sk" :> S("a")),
    ("pk" :> S("b")) @@ ("sk" :> S("a")),
    ("pk" :> N("a")) @@ ("sk" :> S("a")) }

WriteRequests ==
  { NewTableOf(i) : i \in { c \in CreateTableInputs : Len(c.key_schema) = 1 } }
  \cup { DeleteTableOf(i) : i \in TableNameInputs }
  \cup { InsertOf(n, it) : n \in TableNames, it \in LockItems }
  \cup { InsertsOf(<<n>>, n :> <<PutRequest(it1), PutRequest(it2)>>) :
           n \in TableNames, it1 \in LockItems, it2 \in LockItems }

\* the tables and rows a request adds at most
TablesOf(todo) == Cardinality({ i \in DOMAIN todo : todo[i].kind = "new_table" })
RowsOfTodo(todo) == Cardinality({ i \in DOMAIN todo : todo[i].kind = "insert" })

\* a handler of a write request calls manager.write()
WriteCall ==
  /\ writer.pc = "idle"
  /\ writer' = [writer EXCEPT !.pc = "waiting"]
  /\ UNCHANGED <<manager, poisoned, req, resp, lock, reader, actorVars>>

\* write() returns the guard: the handler has its request todo
WriteAcquire ==
  /\ writer.pc = "waiting"
  /\ CanWrite(lock)
  /\ ~poisoned
  /\ \E todo \in WriteRequests :
       /\ Len(AllTables(manager)) + TablesOf(todo) <= MaxTables
       /\ TotalRows(manager) + RowsOfTodo(todo) <= MaxItems
       /\ writer' = [pc |-> "holding", start |-> manager, todo |-> todo]
  /\ lock' = [lock EXCEPT !.writer = TRUE]
  /\ UNCHANGED <<manager, poisoned, req, resp, reader, actorVars>>

\* the handler makes its next mutation; a panic drops the guard and
\* poisons the lock
WriteStep ==
  /\ writer.pc = "holding"
  /\ writer.todo # <<>>
  /\ LET done == Apply(manager, Head(writer.todo)) IN
     IF done.kind = "panic"
     THEN /\ poisoned' = TRUE
          /\ lock' = [lock EXCEPT !.writer = FALSE]
          /\ writer' = NoWrite(writer.start, writer.todo)
          /\ UNCHANGED manager
     ELSE /\ manager' = done.manager
          /\ writer' = [writer EXCEPT !.todo = Tail(writer.todo)]
          /\ UNCHANGED <<poisoned, lock>>
  /\ UNCHANGED <<req, resp, reader, actorVars>>

\* the handler returns: the guard is dropped
WriteEnd ==
  /\ writer.pc = "holding"
  /\ writer.todo = <<>>
  /\ lock' = [lock EXCEPT !.writer = FALSE]
  /\ writer' = NoWrite(manager, <<>>)
  /\ UNCHANGED <<manager, poisoned, req, resp, reader, actorVars>>

\* write() on a poisoned lock is an error: MutexUnlock
WriteRefused ==
  /\ writer.pc = "waiting"
  /\ CanWrite(lock)
  /\ poisoned
  /\ writer' = [writer EXCEPT !.pc = "idle"]
  /\ UNCHANGED <<manager, poisoned, req, resp, lock, reader, actorVars>>

\* a handler of a read request calls manager.read()
ReadCall ==
  /\ reader.pc = "idle"
  /\ reader' = [pc |-> "waiting"]
  /\ UNCHANGED <<manager, poisoned, req, resp, lock, writer, actorVars>>

\* read() returns the guard
ReadAcquire ==
  /\ reader.pc = "waiting"
  /\ CanRead(lock)
  /\ ~poisoned
  /\ lock' = [lock EXCEPT !.readers = @ + 1]
  /\ reader' = [pc |-> "holding", seen |-> None]
  /\ UNCHANGED <<manager, poisoned, req, resp, writer, actorVars>>

\* the handler reads the manager through the guard
ReadLook ==
  /\ reader.pc = "holding"
  /\ reader.seen = None
  /\ reader' = [reader EXCEPT !.seen = Some(manager)]
  /\ UNCHANGED <<manager, poisoned, req, resp, lock, writer, actorVars>>

\* the handler returns: the guard is dropped
ReadEnd ==
  /\ reader.pc = "holding"
  /\ reader.seen # None
  /\ lock' = [lock EXCEPT !.readers = @ - 1]
  /\ reader' = NoTask
  /\ UNCHANGED <<manager, poisoned, req, resp, writer, actorVars>>

\* read() on a poisoned lock is an error: MutexUnlock
ReadRefused ==
  /\ reader.pc = "waiting"
  /\ CanRead(lock)
  /\ poisoned
  /\ reader' = NoTask
  /\ UNCHANGED <<manager, poisoned, req, resp, lock, writer, actorVars>>

LockNext ==
  \/ WriteCall
  \/ WriteAcquire
  \/ WriteStep
  \/ WriteEnd
  \/ WriteRefused
  \/ ReadCall
  \/ ReadAcquire
  \/ ReadLook
  \/ ReadEnd
  \/ ReadRefused

LockSpec == Init /\ [][LockNext]_vars

----------------------------------------------------------------------------
(* The sync actor: tasks that send through their handles, and the loop of   *)
(* run_my_actor on its blocking thread.  A task sends Shutdown as its last  *)
(* message and gives up its handle with it, as CustomHandle::shutdown does. *)

\* a task calls ActorHandle::send with its next message
SendCall(h) ==
  /\ senders[h].pc = "idle"
  /\ senders[h].n < MaxSends
  /\ \E kind \in MessageKinds :
       senders' = [senders EXCEPT ![h] =
                     Task("sending", @.n + 1, Message(h, @.n + 1, kind))]
  /\ UNCHANGED <<rx, actor, cur, accepted, handled, spun, serverVars>>

\* the send of a task completes at once, whatever the channel holds
SendReturnUnbounded(h) ==
  /\ senders[h].pc = "sending"
  /\ LET msg == senders[h].msg
         result == SenderSend(actor)
     IN /\ rx' = IF result = "Ok" THEN Append(rx, msg) ELSE rx
        /\ accepted' = IF result = "Ok" THEN Append(accepted, msg) ELSE accepted
        /\ senders' = [senders EXCEPT ![h] =
                         Task(IF msg.kind = "Shutdown" THEN "dropped" ELSE "idle",
                              @.n, NoMessage)]
  /\ UNCHANGED <<actor, cur, handled, spun, serverVars>>

\* the send of a task completes: the channel has room and takes the
\* message, or the receiver is gone and the message is given up.  While
\* the channel is full and the receiver alive the send waits.
SendReturn(h) ==
  /\ senders[h].pc = "sending"
  /\ LET msg == senders[h].msg
         result == SenderSend(actor)
     IN /\ result = "Ok" => Len(rx) < ChannelCapacity
        /\ rx' = IF result = "Ok" THEN Append(rx, msg) ELSE rx
        /\ accepted' = IF result = "Ok" THEN Append(accepted, msg) ELSE accepted
        /\ senders' = [senders EXCEPT ![h] =
                         Task(IF send(result) = "panicked" THEN "panicked"
                              ELSE IF msg.kind = "Shutdown" THEN "dropped"
                              ELSE "idle",
                              @.n, NoMessage)]
  /\ UNCHANGED <<actor, cur, handled, spun, serverVars>>

\* a task drops its handle
DropHandle(h) ==
  /\ senders[h].pc = "idle"
  /\ senders' = [senders EXCEPT ![h] = Task("dropped", @.n, NoMessage)]
  /\ UNCHANGED <<rx, actor, cur, accepted, handled, spun, serverVars>>

\* a receive that takes the newest message of the channel
RecvSomeNewest ==
  /\ actor = "recv"
  /\ rx # <<>>
  /\ cur' = rx[Len(rx)]
  /\ rx' = SubSeq(rx, 1, Len(rx) - 1)
  /\ actor' = "handle"
  /\ UNCHANGED <<senders, accepted, handled, spun, serverVars>>

\* run_my_actor: blocking_recv returns Some(msg)
RecvSome ==
  /\ actor = "recv"
  /\ rx # <<>>
  /\ cur' = Head(rx)
  /\ rx' = Tail(rx)
  /\ actor' = "handle"
  /\ UNCHANGED <<senders, accepted, handled, spun, serverVars>>

\* run_my_actor: blocking_recv returns None, the channel being empty and
\* every handle dropped; the loop goes round
RecvNone ==
  /\ actor = "recv"
  /\ rx = <<>>
  /\ \A h \in Handles : senders[h].pc \in {"dropped", "panicked"}
  /\ spun' = TRUE
  /\ UNCHANGED <<rx, actor, cur, senders, accepted, handled, serverVars>>

\* run_my_actor: handle_message(msg); on Break the loop is left, the
\* function returns and drops the actor with its receiver and what the
\* channel still holds
HandleMessage ==
  /\ actor = "handle"
  /\ handled' = Append(handled, cur)
  /\ cur' = NoMessage
  /\ IF handle_message(cur) = Break
     THEN actor' = "returned" /\ rx' = <<>>
     ELSE actor' = "recv" /\ rx' = rx
  /\ UNCHANGED <<senders, accepted, spun, serverVars>>

ActorNext ==
  \/ \E h \in Handles : SendCall(h)
  \/ \E h \in Handles : SendReturn(h)
  \/ \E h \in Handles : DropHandle(h)
  \/ RecvSome
  \/ RecvNone
  \/ HandleMessage

ActorSpec == Init /\ [][ActorNext]_vars

----------------------------------------------------------------------------
(* Properties *)

Tables == Range(AllTables(manager))

\* C7: every item stored in the partition indexed by v carries the
\* table's partition-key attribute with the value S(v).
C7_PartitionKeyOfItems ==
  \A T \in Tables :
    \A v \in DOMAIN T.partitions :
      \A i \in DOMAIN T.partitions[v] :
        /\ T.partition_key \in DOMAIN T.partitions[v][i]
        /\ T.partitions[v][i][T.partition_key] = S(v)

\* an insert has just filled a table with two partitions
C7_Witness ==
  /\ req.op \in {"PutItem", "BatchWriteItem"}
  /\ resp.kind = "ok"
  /\ \E T \in Tables :
       /\ Cardinality(DOMAIN T.partitions) = 2
       /\ \A v \in DOMAIN T.partitions : T.partitions[v] # <<>>

----------------------------------------------------------------------------
(* Requests in a row and the tables they name *)

\* the names ListTables answers with when the manager is m
Listed(m) == Range(handle_list_tables(m, FALSE, EmptyMap).resp.body.table_names)

\* the primary key of item on table: the partition-key attribute and, when
\* the table declares one, the sort-key attribute
KeyOfItem(table, item) ==
  [a \in ({table.partition_key} \cup Range(table.sort_key)) \cap DOMAIN item |->
     item[a]]

\* C1: with the server ready for a request, a successful PutItem(item)
\* followed at once by GetItem(key(item)) answers with exactly item.
C1_PutThenGet ==
  req = Idle =>
    \A input \in PutItemInputs :
      LET put == handle_put_item(manager, poisoned, input) IN
      put.resp.kind = "ok" =>
        LET table == get_table(put.manager, input.table_name)[1]
            get == handle_get_item(put.manager, put.poisoned,
                     [table_name |-> input.table_name,
                      key        |-> KeyOfItem(table, input.item)])
        IN /\ get.resp.kind = "ok"
           /\ get.resp.body.item = Some(input.item)

\* C2: with the server ready, after CreateTable(a) and CreateTable(b),
\* a # b, ListTables holds both names; after a following DeleteTable(a) it
\* holds b and not a.
C2_ListAfterCreateDelete ==
  (req = Idle /\ ~poisoned) =>
    \A ia, ib \in CreateTableInputs :
      ia.table_name # ib.table_name =>
        LET m1 == handle_create_table(manager, poisoned, ia).manager
            m2 == handle_create_table(m1, FALSE, ib).manager
            m3 == handle_delete_table(m2, FALSE,
                                      [table_name |-> ia.table_name]).manager
        IN /\ {ia.table_name, ib.table_name} \subseteq Listed(m2)
           /\ ib.table_name \in Listed(m3)
           /\ ia.table_name \notin Listed(m3)

\* CreateTable(t1) and CreateTable(t2) have been served: both names are
\* listed, and DeleteTable(t1) leaves t2 alone
C2_Witness ==
  /\ req = Idle
  /\ ~poisoned
  /\ table_names(manager) = <<"t1", "t2">>
  /\ Listed(manager) = {"t1", "t2"}
  /\ Listed(handle_delete_table(manager, poisoned,
                                [table_name |-> "t1"]).manager) = {"t2"}

\* C3: no two tables of one (account, region) have the same name.
C3_UniqueNames ==
  \A a \in DOMAIN manager.per_account :
    \A r \in DOMAIN manager.per_account[a].tables :
      LET ts == manager.per_account[a].tables[r] IN
      \A i, j \in DOMAIN ts : ts[i].name = ts[j].name => i = j

----------------------------------------------------------------------------
(* Batches *)

\* the table a request naming table_name goes to, or None
Target(table_name) == get_table(manager, table_name)

\* a request the batch cannot store: its table is missing or its insert fails
Unstorable(table_name, r) ==
  \/ Target(table_name) = None
  \/ TableInsert(Target(table_name)[1], r.put_request.item).kind # "ok"

\* C4: BatchWriteItem answers with UnprocessedItems[t] holding exactly the
\* requests for t whose table is missing or whose insert fails, unchanged and
\* in order; the item of every other request is stored in its table.
C4_UnprocessedItems ==
  req.op = "BatchWriteItem" =>
    /\ resp.kind = "ok"
    /\ LET items == req.input.request_items
           un == resp.body.unprocessed_items[1]
       IN /\ DOMAIN un \subseteq DOMAIN items
          /\ \A t \in DOMAIN items :
               LET Fails(r) == Unstorable(t, r) IN
               /\ (IF t \in DOMAIN un THEN un[t] ELSE <<>>)
                    = SelectSeq(items[t], Fails)
               /\ \A i \in DOMAIN items[t] :
                    ~Fails(items[t][i]) =>
                      \E k \in DOMAIN Target(t)[1].partitions :
                        items[t][i].put_request.item
                          \in Range(Target(t)[1].partitions[k])

\* C6: every request is answered with a success or a typed error; no
\* handler panics.
C6_NoPanic == resp.kind # "panic"

----------------------------------------------------------------------------
(* Scan and Query *)

\* how often x occurs in the sequence seq
CountIn(seq, x) == Cardinality({ i \in DOMAIN seq : seq[i] = x })

\* C8: Scan of a table answers with every item of every partition: Count is
\* the sum of the sizes of the partitions, every stored item is returned as
\* often as it is stored, and ScannedCount = Count.  Scan of an existing
\* table succeeds unless the lock is poisoned.
C8_ScanCount ==
  req.op = "Scan" =>
    LET table == get_table(manager, req.input.table_name) IN
    /\ (~poisoned /\ table # None) => resp.kind = "ok"
    /\ resp.kind = "ok" =>
         LET parts == table[1].partitions IN
         /\ resp.body.count =
              SumOver([k \in DOMAIN parts |-> Len(parts[k])], DOMAIN parts)
         /\ resp.body.scanned_count = resp.body.count
         /\ Len(resp.body.items) = resp.body.count
         /\ \A k \in DOMAIN parts : \A x \in Range(parts[k]) :
              CountIn(resp.body.items, x) =
                SumOver([j \in DOMAIN parts |-> CountIn(parts[j], x)], DOMAIN parts)

\* Scan has answered for a table with an item in each of two partitions
C8_Witness ==
  /\ req.op = "Scan"
  /\ resp.kind = "ok"
  /\ resp.body.count = 2
  /\ Cardinality(DOMAIN get_table(manager, req.input.table_name)[1].partitions) = 2

\* the attribute name and the string that the operands of a condition
\* stand for
NameMeant(tok, names) ==
  IF tok[1] = "#" THEN MapOf(names)[NameKey(tok[2])] ELSE tok[2]
ValueMeant(tok, values) ==
  IF tok[1] = ":" THEN FirstValue(MapOf(values)[ValueKey(tok[2])])[1] ELSE tok[2]

\* the strings of the model have one letter: s starts with p when it is p
StartsWith(s, p) == s = p

\* item satisfies the condition c
Satisfies(item, c, names, values) ==
  LET key == NameMeant(c.key, names)
      value == ValueMeant(c.value, values)
  IN /\ key \in DOMAIN item
     /\ item[key].t = "S"
     /\ IF c.kind = "cmp" THEN item[key].v = value
        ELSE StartsWith(item[key].v, value)

\* C9: every item a successful Query returns is returned by Scan of the same
\* table in the same state, and satisfies every condition of the expression.
C9_QueryWithinScan ==
  (req.op = "Query" /\ resp.kind = "ok") =>
    LET input == req.input
        scan == handle_scan(manager, poisoned, [table_name |-> input.table_name])
    IN \A i \in DOMAIN resp.body.items :
         /\ scan.resp.kind = "ok"
         /\ resp.body.items[i] \in Range(scan.resp.body.items)
         /\ \A j \in DOMAIN input.key_condition_expression :
              Satisfies(resp.body.items[i], input.key_condition_expression[j],
                        input.expression_attribute_names,
                        input.expression_attribute_values)

----------------------------------------------------------------------------
(* The answers of Query *)

\* the table the request being answered names, or None
Asked == get_table(manager, req.input.table_name)

\* the operand tok can be read: a placeholder has its entry in its map
Readable(tok, names, values) ==
  /\ tok[1] = "#" => (names # None /\ NameKey(tok[2]) \in DOMAIN names[1])
  /\ tok[1] = ":" => /\ values # None
                     /\ ValueKey(tok[2]) \in DOMAIN values[1]
                     /\ DOMAIN values[1][ValueKey(tok[2])] # {}

\* the request is a key condition: one or two conditions, the first one a
\* comparison, every operand readable
Conditional(input) ==
  /\ Len(input.key_condition_expression) \in {1, 2}
  /\ input.key_condition_expression[1].kind = "cmp"
  /\ \A i \in DOMAIN input.key_condition_expression :
       LET c == input.key_condition_expression[i] IN
       /\ KeyOk(c.key) /\ ValueOk(c.value)
       /\ Readable(c.key, input.expression_attribute_names,
                   input.expression_attribute_values)
       /\ Readable(c.value, input.expression_attribute_names,
                   input.expression_attribute_values)

\* the attribute and the string of the first condition, the partition equality
PartitionName(input) ==
  NameMeant(input.key_condition_expression[1].key, input.expression_attribute_names)
PartitionValue(input) ==
  ValueMeant(input.key_condition_expression[1].value,
             input.expression_attribute_values)

\* the answer of the handler when the table engine fails with error
TableFailure(error) == Failure("RynamodbError", error)

\* C11: a Query whose partition equality is on the partition key, with a
\* value for which the table has no partition, answers with no items,
\* Count = 0 and ScannedCount = 0 and no error, for one condition and for two.
C11_AbsentPartitionEmpty ==
  (req.op = "Query" /\ ~poisoned /\ Asked # None /\ Conditional(req.input)) =>
    ((/\ PartitionName(req.input) = Asked[1].partition_key
      /\ PartitionValue(req.input) \notin DOMAIN Asked[1].partitions)
     => resp = Success([items |-> <<>>, count |-> 0, scanned_count |-> 0]))

\* C12: a Query whose partition equality names an attribute that is not the
\* partition key fails with InvalidPartitionKey, for one condition and for two.
C12_InvalidPartitionKey ==
  (req.op = "Query" /\ ~poisoned /\ Asked # None /\ Conditional(req.input)) =>
    (PartitionName(req.input) # Asked[1].partition_key
     => resp = TableFailure("InvalidPartitionKey"))

\* the rows of rows whose attribute key is the string value, in order
RowsWith(rows, key, value) ==
  SelectSeqOf(rows, { row \in Range(rows) :
                        key \in DOMAIN row /\ row[key] = S(value) })

\* the request is `K = V AND c` on the partition key of the table asked,
\* c of the kind given
Composite(kind) ==
  /\ Len(req.input.key_condition_expression) = 2
  /\ req.input.key_condition_expression[2].kind = kind
  /\ PartitionName(req.input) = Asked[1].partition_key

\* the attribute and the string of the second condition
SortName(input) ==
  NameMeant(input.key_condition_expression[2].key, input.expression_attribute_names)
SortValue(input) ==
  ValueMeant(input.key_condition_expression[2].value,
             input.expression_attribute_values)

\* C13: `pk = V AND sk = W` on a table with partition key pk and sort key sk
\* answers with exactly the items of partition V whose attribute sk is the
\* string W, in the order of the partition; it returns no item when V has
\* no partition.
C13_CompositeEquality ==
  (req.op = "Query" /\ ~poisoned /\ Asked # None /\ Conditional(req.input)) =>
    ((/\ Composite("cmp")
      /\ Asked[1].sort_key = Some(SortName(req.input)))
     => IF PartitionValue(req.input) \in DOMAIN Asked[1].partitions
        THEN /\ resp.kind = "ok"
             /\ resp.body.items =
                  RowsWith(Asked[1].partitions[PartitionValue(req.input)],
                           SortName(req.input), SortValue(req.input))
        ELSE resp.kind = "err")

\* `pk = a AND sk = a` has been answered with one of the two items of
\* partition a
C13_Witness ==
  /\ req.op = "Query"
  /\ req.input.key_condition_expression
       = <<Cmp(Col("pk"), Col("a")), Cmp(Col("sk"), Col("a"))>>
  /\ Asked # None
  /\ Asked[1].sort_key = Some("sk")
  /\ "a" \in DOMAIN Asked[1].partitions
  /\ Len(Asked[1].partitions["a"]) = 2
  /\ resp.kind = "ok"
  /\ resp.body.items = <<("pk" :> S("a")) @@ ("sk" :> S("a"))>>

\* C14: `pk = V AND begins_with(sk, P)` answers with exactly the items of
\* partition V whose string sk starts with P, in the order of the partition.
C14_CompositeBeginsWith ==
  (req.op = "Query" /\ ~poisoned /\ Asked # None /\ Conditional(req.input)) =>
    ((/\ Composite("fn")
      /\ PartitionValue(req.input) \in DOMAIN Asked[1].partitions)
     => /\ resp.kind = "ok"
        /\ resp.body.items =
             RowsWith(Asked[1].partitions[PartitionValue(req.input)],
                      SortName(req.input), SortValue(req.input)))

----------------------------------------------------------------------------
(* The answers of DescribeTable *)

\* C15: DescribeTable of an existing table reports TableStatus = ACTIVE and
\* ItemCount = the number of items stored in the partitions of the table.
C15_DescribeItemCount ==
  (req.op = "DescribeTable" /\ ~poisoned /\ Asked # None) =>
    /\ resp.kind = "ok"
    /\ resp.body.table.table_status = "ACTIVE"
    /\ resp.body.table.item_count = RowCount(Asked[1])

\* the entries of a key schema, whatever their order
Entries(schema) == Range(schema)

\* C16: with the server ready, after CreateTable(name) with one HASH entry
\* and at most one RANGE entry, DescribeTable(name) answers with a KeySchema
\* of the entries submitted: the same attribute names in the same roles, in
\* whichever order they were submitted.
C16_DescribeKeySchema ==
  (req = Idle /\ ~poisoned) =>
    \A input \in CreateTableInputs :
      LET made == handle_create_table(manager, poisoned, input)
          desc == handle_describe_table(made.manager, made.poisoned,
                                        [table_name |-> input.table_name])
      IN /\ desc.resp.kind = "ok"
         /\ Len(desc.resp.body.table.key_schema) = Len(input.key_schema)
         /\ Entries(desc.resp.body.table.key_schema) = Entries(input.key_schema)

\* C17: the arn of every table is arn:aws:dynamodb:{region}:{account}:
\* table/{name} for the region and the account that hold it and for its name.
C17_TableArn ==
  \A a \in DOMAIN manager.per_account :
    \A r \in DOMAIN manager.per_account[a].tables :
      \A T \in Range(manager.per_account[a].tables[r]) :
        T.arn = Arn(r, a, T.name)

----------------------------------------------------------------------------
(* Tables that are deleted or missing *)

\* the tables of m that are not called table_name, in iteration order
OtherTables(m, table_name) ==
  SelectSeqOf(AllTables(m), { T \in Range(AllTables(m)) : T.name # table_name })

\* C18: with the server ready, DeleteTable(name) succeeds whether or not a
\* table is called name; afterwards no table of any account or region is
\* called name, and the tables with other names are as they were, with all
\* their items.
C18_DeleteTableFrame ==
  (req = Idle /\ ~poisoned) =>
    \A input \in TableNameInputs :
      LET out == handle_delete_table(manager, poisoned, input) IN
      /\ out.resp.kind = "ok"
      /\ get_table(out.manager, input.table_name) = None
      /\ input.table_name \notin Range(table_names(out.manager))
      /\ AllTables(out.manager) = OtherTables(manager, input.table_name)

\* the server is ready with only t1, which holds an item: DeleteTable(t2)
\* finds no table, DeleteTable(t1) finds one
C18_Witness ==
  /\ req = Idle
  /\ ~poisoned
  /\ table_names(manager) = <<"t1">>
  /\ RowCount(get_table(manager, "t1")[1]) = 1
  /\ handle_delete_table(manager, poisoned, [table_name |-> "t2"]).manager = manager
  /\ AllTables(handle_delete_table(manager, poisoned,
                                   [table_name |-> "t1"]).manager) = <<>>

\* the answer for a table that does not exist: ResourceNotFoundException at
\* status 400, its message naming the table or not
NotFound(out, name) ==
  /\ out.resp.kind = "err"
  /\ out.resp.status = 400
  /\ serialize(out.resp.error, out.resp.inner)
       = [ type    |-> "com.amazonaws.dynamodb.v20120810#ResourceNotFoundException",
           message |-> IF name = "" THEN <<"Requested resource not found">>
                       ELSE <<"Requested resource not found: Table: ", name,
                              " not found">> ]

\* C19: with the server ready, DescribeTable, PutItem, GetItem, Query and
\* Scan that name a table that does not exist fail with
\* ResourceNotFoundException at status 400, DescribeTable with the name of
\* the table in its message, and leave the manager as it was.
C19_MissingTable ==
  (req = Idle /\ ~poisoned) =>
    \A n \in TableNames :
      get_table(manager, n) = None =>
        /\ LET out == handle_describe_table(manager, poisoned, [table_name |-> n])
           IN NotFound(out, n) /\ out.manager = manager
        /\ LET out == handle_scan(manager, poisoned, [table_name |-> n])
           IN NotFound(out, "") /\ out.manager = manager
        /\ \A input \in PutItemInputs : input.table_name = n =>
             LET out == handle_put_item(manager, poisoned, input)
             IN NotFound(out, "") /\ out.manager = manager
        /\ \A input \in GetItemInputs : input.table_name = n =>
             LET out == handle_get_item(manager, poisoned, input)
             IN NotFound(out, "") /\ out.manager = manager
        /\ \A input \in QueryInputs : input.table_name = n =>
             LET out == handle_query(manager, poisoned, input)
             IN NotFound(out, "") /\ out.manager = manager

\* the server is ready with t1, which holds an item, and without t2
C19_Witness ==
  /\ req = Idle
  /\ ~poisoned
  /\ table_names(manager) = <<"t1">>
  /\ RowCount(get_table(manager, "t1")[1]) = 1
  /\ handle_describe_table(manager, poisoned, [table_name |-> "t2"]).resp.status = 400
  /\ \A input \in PutItemInputs : input.table_name = "t2" =>
       handle_put_item(manager, poisoned, input).resp.error = "ResourceNotFound"

\* the key names a partition that the table has not, or, on a table with a
\* sort key, a sort-key string that no item of the partition has
Miss(table, key) ==
  /\ table.partition_key \in DOMAIN key
  /\ key[table.partition_key].t = "S"
  /\ \/ key[table.partition_key].v \notin DOMAIN table.partitions
     \/ /\ table.sort_key # None
        /\ table.sort_key[1] \in DOMAIN key
        /\ \A row \in Range(table.partitions[key[table.partition_key].v]) :
             table.sort_key[1] \in DOMAIN row =>
               row[table.sort_key[1]] # key[table.sort_key[1]]

\* C20: GetItem on an existing table with a key that misses answers with
\* Item = null and a success status.
C20_GetItemMiss ==
  (req.op = "GetItem" /\ ~poisoned /\ Asked # None) =>
    (Miss(Asked[1], req.input.key) =>
       /\ resp.kind = "ok"
       /\ resp.status = 200
       /\ resp.body.item = None)

\* GetItem has missed on a table with a sort key: partition a holds one
\* item, whose sort key is not the one asked for
C20_Witness ==
  /\ req.op = "GetItem"
  /\ resp.kind = "ok"
  /\ resp.body.item = None
  /\ Asked # None
  /\ Asked[1].sort_key = Some("sk")
  /\ req.input.key = ("pk" :> S("a")) @@ ("sk" :> S("b"))
  /\ Asked[1].partitions = ("a" :> <<("pk" :> S("a")) @@ ("sk" :> S("a"))>>)

\* C21: with the server ready, PutItem of an item that lacks the partition
\* key of its table fails with MissingPartitionKey and leaves every table as
\* it was: no partition is made and no item is stored.
C21_MissingPartitionKey ==
  (req = Idle /\ ~poisoned) =>
    \A input \in PutItemInputs :
      LET table == get_table(manager, input.table_name)
          out == handle_put_item(manager, poisoned, input)
      IN (table # None /\ table[1].partition_key \notin DOMAIN input.item) =>
           /\ out.resp.kind = "err"
           /\ out.resp.inner = "MissingPartitionKey"
           /\ out.manager = manager
           /\ TotalRows(out.manager) = TotalRows(manager)

\* PutItem of the item {sk: a} has failed on a table that holds an item
C21_Witness ==
  /\ req.op = "PutItem"
  /\ resp.kind = "err"
  /\ resp.inner = "MissingPartitionKey"
  /\ Asked # None
  /\ Asked[1].partition_key \notin DOMAIN req.input.item
  /\ RowCount(Asked[1]) = 1

\* the errors of a table that a request of the client causes
ClientErrors ==
  { "MissingPartitionKey", "InvalidPartitionKey", "NoAttributeName",
    "NoAttributeValue", "ParseError" }

\* C22: a request that fails with MissingPartitionKey, InvalidPartitionKey,
\* NoAttributeName, NoAttributeValue or a ParseError of the condition is
\* answered with status 400, never with status 500.
C22_ClientErrorStatus ==
  (resp.kind = "err" /\ resp.inner \in ClientErrors) =>
    /\ resp.status = BAD_REQUEST
    /\ resp.status # INTERNAL_SERVER_ERROR

\* C23: with the server ready, PutItem of an item whose partition key is
\* present but not a string fails with the error UnsupportedKeyType and
\* stores nothing.
C23_UnsupportedKeyType ==
  (req = Idle /\ ~poisoned) =>
    \A input \in PutItemInputs :
      LET table == get_table(manager, input.table_name)
          out == handle_put_item(manager, poisoned, input)
      IN (/\ table # None
          /\ table[1].partition_key \in DOMAIN input.item
          /\ input.item[table[1].partition_key].t # "S") =>
           /\ out.resp.kind = "err"
           /\ out.resp.inner = "UnsupportedKeyType"
           /\ out.manager = manager

\* the identifiers of the placeholders of an expression
PlaceholdersOf(expr) ==
  { expr[i].key[2] : i \in { j \in DOMAIN expr : expr[j].key[1] # "" } }
  \cup { expr[i].value[2] : i \in { j \in DOMAIN expr : expr[j].value[1] # "" } }

\* the placeholder k is neither #k of the names nor :k of the values
Undefined(k, names, values) ==
  /\ OptGet(names, NameKey(k)) = None
  /\ OptGet(values, ValueKey(k)) = None

HasHash(schema) == \E i \in DOMAIN schema : schema[i].key_type = HASH

\* C25: with the server ready, CreateTable with a key schema without HASH
\* entry fails with an internal error and creates no table; no stored table
\* has the empty string as the name of its partition key.
C25_SchemaNeedsHash ==
  /\ \A table \in Tables : table.partition_key # ""
  /\ (req = Idle /\ ~poisoned) =>
       \A input \in WideCreateTableInputs :
         LET out == handle_create_table(manager, poisoned, input) IN
         ~HasHash(input.key_schema) =>
           /\ out.resp.kind = "err"
           /\ out.resp.status = INTERNAL_SERVER_ERROR
           /\ out.manager = manager

\* C26: every item stored in a table that declares a sort key has the
\* attribute of the sort key.
C26_SortKeyOfItems ==
  \A table \in Tables :
    table.sort_key # None =>
      \A k \in DOMAIN table.partitions :
        \A row \in Range(table.partitions[k]) :
          table.sort_key[1] \in DOMAIN row

----------------------------------------------------------------------------
(* The header and the body of a request *)

\* the header is missing, has no dot, or what follows its first dot is not
\* the name of an operation of the server
Unknown(target) ==
  \/ target = None
  \/ Len(target[1]) < 2
  \/ Tail(target[1]) \notin { <<o>> : o \in OperationTypes }

\* the parts s, one after the other, are in the message
Mentions(message, s) ==
  \E i \in 0..(Len(message) - Len(s)) : SubSeq(message, i + 1, i + Len(s)) = s

\* the answer 400 InvalidOperation; when the header names an operation, the
\* message has its name
Refused(r, target) ==
  /\ r.kind = "err"
  /\ r.status = 400
  /\ r.error = "InvalidOperation"
  /\ (target # None /\ Len(target[1]) >= 2) =>
       Mentions(serialize(r.error, r.details).error, Tail(target[1]))

\* C27: a request whose header x-amz-target is missing, has no dot, or names
\* no operation of the server is answered with 400 and InvalidOperation, the
\* message naming the operation, and leaves the manager and its lock as they
\* were; a header with another version part is served as the one of the SDK.
C27_InvalidOperation ==
  /\ (req.op \in {"UnknownOperation", "MalformedBody"} /\ Unknown(req.target)) =>
       Refused(resp, req.target)
  /\ req = Idle =>
       /\ \A target \in Targets, body \in TableNameInputs \cup {Malformed} :
            Unknown(target) =>
              LET out == handler(manager, poisoned, target, <<>>, body) IN
              /\ Refused(out.resp, target)
              /\ out.manager = manager
              /\ out.poisoned = poisoned
       /\ \A v \in Versions, input \in TableNameInputs :
            /\ handler(manager, poisoned, Some(<<v, "Scan">>), <<>>, input)
                 = handle_scan(manager, poisoned, input)
            /\ handler(manager, poisoned, Some(<<v, "DeleteTable">>), <<>>, input)
                 = handle_delete_table(manager, poisoned, input)

\* the server holds a table and has refused a request for UpdateItem
C27_Witness ==
  /\ req.op = "UnknownOperation"
  /\ req.target = Some(<<"DynamoDB_20120810", "UpdateItem">>)
  /\ resp.status = 400
  /\ resp.details = <<"invalid target string: ", "parsing operation: ",
                      "operation ", "UpdateItem", " not handled">>
  /\ Len(AllTables(manager)) = 1

\* the answer 400 SerializationException
Unserialized(r) ==
  /\ r.kind = "err"
  /\ r.status = 400
  /\ serialize(r.error, r.inner)
       = [type |-> "com.amazon.coral.service#SerializationException"]

\* C28: for every operation, a request whose body does not decode is
\* answered with 400 and SerializationException and leaves the manager and
\* its lock as they were, also when the lock is poisoned: the body is
\* decoded before the lock is asked for.
C28_MalformedBody ==
  /\ (req.op = "MalformedBody" /\ ~Unknown(req.target)) => Unserialized(resp)
  /\ req = Idle =>
       \A v \in Versions, o \in OperationTypes :
         LET out == handler(manager, poisoned, Some(<<v, o>>), <<>>, Malformed) IN
         /\ Unserialized(out.resp)
         /\ out.manager = manager
         /\ out.poisoned = poisoned

\* a PutItem whose body does not decode has been answered by a server that
\* holds a table and whose lock is poisoned
C28_Witness ==
  /\ req.op = "MalformedBody"
  /\ req.target = Some(<<"DynamoDB_20120810", "PutItem">>)
  /\ poisoned
  /\ resp.status = 400
  /\ resp.error = "SerializationError"
  /\ Len(AllTables(manager)) = 1

----------------------------------------------------------------------------
(* The visitor *)

\* the tree has a Placeholder, at whatever depth
RECURSIVE HasPlaceholder(_)
HasPlaceholder(n) ==
  CASE n.node = "Placeholder" -> TRUE
    [] n.node = "Binop" -> HasPlaceholder(n.lhs) \/ HasPlaceholder(n.rhs)
    [] n.node = "FunctionCall" -> \E i \in DOMAIN n.args : HasPlaceholder(n.args[i])
    [] OTHER -> FALSE

\* b is a with an Attribute in the place of every Placeholder: the same
\* operators, functions and Attributes in the same places
RECURSIVE SameShape(_, _)
SameShape(a, b) ==
  CASE a.node = "Binop" ->
         /\ b.node = "Binop"
         /\ b.op = a.op
         /\ SameShape(a.lhs, b.lhs)
         /\ SameShape(a.rhs, b.rhs)
    [] a.node = "FunctionCall" ->
         /\ b.node = "FunctionCall"
         /\ b.name = a.name
         /\ Len(b.args) = Len(a.args)
         /\ \A i \in DOMAIN a.args : SameShape(a.args[i], b.args[i])
    [] a.node = "Placeholder" -> b.node = "Attribute"
    [] OTHER -> b = a

\* the maps of the request define every placeholder of its expression
Defined(input) ==
  \A i \in DOMAIN input.key_condition_expression :
    LET c == input.key_condition_expression[i] IN
    /\ Readable(c.key, input.expression_attribute_names,
                input.expression_attribute_values)
    /\ Readable(c.value, input.expression_attribute_names,
                input.expression_attribute_values)

\* C29: the visitor, given the tree of the expression of a Query on an
\* existing table and maps that define every placeholder of it, returns a
\* tree without Placeholder at any depth and with the shape, the operators
\* and the Attributes of the tree it was given.
C29_NoPlaceholderLeft ==
  (/\ req.op = "Query" /\ ~poisoned /\ Asked # None
   /\ parse(req.input.key_condition_expression).kind = "ok"
   /\ Defined(req.input)) =>
    LET ast == parse(req.input.key_condition_expression).ast
        new_ast == visit(ast, req.input.expression_attribute_names,
                         req.input.expression_attribute_values)
    IN /\ new_ast # PANIC
       /\ ~HasPlaceholder(new_ast)
       /\ SameShape(ast, new_ast)

----------------------------------------------------------------------------
(* The order of the items *)

\* s is t without some of its elements: the elements of s are elements of
\* t, in the order they have in t
RECURSIVE IsSubSeq(_, _)
IsSubSeq(s, t) ==
  IF s = <<>> THEN TRUE
  ELSE IF t = <<>> THEN FALSE
  ELSE IF Head(s) = Head(t) THEN IsSubSeq(Tail(s), Tail(t))
  ELSE IsSubSeq(s, Tail(t))

\* every partition of before is in after, its rows at the front of the rows
\* of after in the same order
KeepsOrder(before, after) ==
  \A k \in DOMAIN before.partitions :
    /\ k \in DOMAIN after.partitions
    /\ Len(after.partitions[k]) >= Len(before.partitions[k])
    /\ SubSeq(after.partitions[k], 1, Len(before.partitions[k]))
         = before.partitions[k]

\* C30: the items a Query returns are items of one partition in the order in
\* which the partition holds them, and a PutItem leaves the items stored
\* before it in their places, the new item behind them: the order of a
\* partition is the order of the puts.
C30_InsertionOrder ==
  /\ (req.op = "Query" /\ resp.kind = "ok" /\ resp.body.items # <<>>) =>
       \E k \in DOMAIN Asked[1].partitions :
         IsSubSeq(resp.body.items, Asked[1].partitions[k])
  /\ req = Idle =>
       \A input \in PutItemInputs :
         LET out == handle_put_item(manager, poisoned, input) IN
         out.resp.kind = "ok" =>
           /\ Len(AllTables(out.manager)) = Len(AllTables(manager))
           /\ \A i \in DOMAIN AllTables(manager) :
                KeepsOrder(AllTables(manager)[i], AllTables(out.manager)[i])

\* a Query has returned the two items of partition a, which differ, the
\* one put first in front
C30_Witness ==
  /\ req.op = "Query"
  /\ resp.kind = "ok"
  /\ Asked # None
  /\ "a" \in DOMAIN Asked[1].partitions
  /\ Asked[1].partitions["a"] = << ("pk" :> S("a")) @@ ("sk" :> S("b")),
                                   ("pk" :> S("a")) @@ ("sk" :> S("a")) >>
  /\ resp.body.items = Asked[1].partitions["a"]

----------------------------------------------------------------------------
(* What a request changes *)

\* after is before with item behind the rows of partition index, which is
\* new when before has no such partition; nothing else differs
Appended(before, after, index, item) ==
  /\ after.name = before.name
  /\ after.partition_key = before.partition_key
  /\ after.sort_key = before.sort_key
  /\ after.arn = before.arn
  /\ DOMAIN after.partitions = DOMAIN before.partitions \cup {index}
  /\ after.partitions[index] = Append(PartitionRows(before, index), item)
  /\ \A k \in DOMAIN before.partitions \ {index} :
       after.partitions[k] = before.partitions[k]

\* C31: every successful PutItem puts its item behind the rows of the
\* partition of the item's partition-key string in one table of the name
\* asked for, whatever that partition holds already, and changes no other
\* partition and no other table.
C31_PutAppends ==
  req = Idle =>
    \A input \in PutItemInputs :
      LET out == handle_put_item(manager, poisoned, input)
          old == AllTables(manager)
          new == AllTables(out.manager)
      IN out.resp.kind = "ok" =>
           /\ Len(new) = Len(old)
           /\ TotalRows(out.manager) = TotalRows(manager) + 1
           /\ \E i \in DOMAIN old :
                /\ old[i].name = input.table_name
                /\ Appended(old[i], new[i],
                            input.item[old[i].partition_key].v, input.item)
                /\ \A j \in DOMAIN old \ {i} : new[j] = old[j]

\* a PutItem has succeeded on a table that held the same item already: the
\* partition holds it twice
C31_Witness ==
  /\ req.op = "PutItem"
  /\ resp.kind = "ok"
  /\ Asked # None
  /\ "a" \in DOMAIN Asked[1].partitions
  /\ Asked[1].partitions["a"] = << req.input.item, req.input.item >>
  /\ Len(AllTables(manager)) = 2

\* the operations that read
Readers == {"DescribeTable", "ListTables", "GetItem", "Query", "Scan"}

\* C32: a DescribeTable, ListTables, GetItem, Query or Scan request leaves
\* the manager as it was, whether it is answered with a success, with an
\* error or not at all.
C32_ReadersChangeNothing ==
  [][(req = Idle /\ req'.op \in Readers) => manager' = manager]_vars

\* a Query has ended in a panic on a server that holds two items
C32_Witness ==
  /\ req.op = "Query"
  /\ resp.kind = "panic"
  /\ ~poisoned
  /\ TotalRows(manager) = 2

----------------------------------------------------------------------------
(* Partitions of a table *)

\* the partition-key values of the rows a table stores
KeyValues(T) ==
  UNION { { T.partitions[k][i][T.partition_key].v :
              i \in { j \in DOMAIN T.partitions[k] :
                        T.partition_key \in DOMAIN T.partitions[k][j] } } :
          k \in DOMAIN T.partitions }

\* the (account, region) pairs that hold a Vec of tables
Vecs(m) ==
  UNION { { <<a, r>> : r \in DOMAIN m.per_account[a].tables } :
          a \in DOMAIN m.per_account }

\* C33: a table has as many partitions as distinct partition-key values
\* were stored in it.  A table starts without partitions; a successful
\* PutItem adds the partition of the item's key value to the table it
\* names, and only when the table does not have it; a PutItem that fails or
\* is aborted adds none; no request other than DeleteTable takes a
\* partition or a table away, and DeleteTable leaves the partitions of the
\* tables with other names.
C33_PartitionsFollowInserts ==
  [][req = Idle =>
       LET op == req'.op IN
       /\ \A pl \in Vecs(manager) \cup Vecs(manager') :
            LET old == TablesIn(manager, pl[1], pl[2])
                new == TablesIn(manager', pl[1], pl[2])
            IN /\ \A i \in DOMAIN new :
                    statistics(new[i]).num_partitions
                      = Cardinality(KeyValues(new[i]))
               /\ op = "PutItem" =>
                    /\ Len(new) = Len(old)
                    /\ \A i \in DOMAIN old :
                         DOMAIN new[i].partitions \ DOMAIN old[i].partitions
                           \subseteq
                             IF /\ resp'.kind = "ok"
                                /\ old[i].name = req'.input.table_name
                             THEN {req'.input.item[old[i].partition_key].v}
                             ELSE {}
               /\ op = "DeleteTable" =>
                    \/ new = old
                    \/ new = SelectSeqOf(old, { T \in Range(old) :
                                                  T.name # req'.input.table_name })
               /\ op # "DeleteTable" =>
                    /\ Len(new) >= Len(old)
                    /\ \A i \in DOMAIN old :
                         /\ new[i].name = old[i].name
                         /\ DOMAIN old[i].partitions
                              \subseteq DOMAIN new[i].partitions
                    /\ \A i \in DOMAIN new \ DOMAIN old :
                         DOMAIN new[i].partitions = {}
       /\ (op = "PutItem" /\ resp'.kind = "ok") =>
            LET T == get_table(manager, req'.input.table_name)[1] IN
            req'.input.item[T.partition_key].v
              \in DOMAIN get_table(manager', req'.input.table_name)[1].partitions
  ]_vars

\* a PutItem has given a table its second partition
C33_Witness ==
  /\ req.op = "PutItem"
  /\ resp.kind = "ok"
  /\ Asked # None
  /\ DOMAIN Asked[1].partitions = {"a", "b"}
  /\ Len(Asked[1].partitions[req.input.item[Asked[1].partition_key].v]) = 1

----------------------------------------------------------------------------
(* Tables that were there before a CreateTable *)

\* C34: with the server ready, a CreateTable with any input leaves every
\* table that is there in its place with its name, key schema and items,
\* also when a table of that name exists; a successful one adds exactly the
\* new table after them.
C34_CreateKeepsTables ==
  req = Idle =>
    \A input \in CreateTableInputs \cup {Malformed} :
      LET out == handle_create_table(manager, poisoned, input)
          old == AllTables(manager)
          new == AllTables(out.manager)
      IN /\ Len(new) >= Len(old)
         /\ SubSeq(new, 1, Len(old)) = old
         /\ Len(new) = Len(old) + (IF out.resp.kind = "ok" THEN 1 ELSE 0)

\* a table has been created under the name of a table that holds an item
C34_Witness ==
  /\ req.op = "CreateTable"
  /\ resp.kind = "ok"
  /\ Len(AllTables(manager)) = 2
  /\ AllTables(manager)[1].name = req.input.table_name
  /\ AllTables(manager)[2].name = req.input.table_name
  /\ RowCount(AllTables(manager)[1]) = 1

----------------------------------------------------------------------------
(* The lock after a request that failed *)

\* C35: after a request that ended in an error or was aborted the manager
\* lock is not poisoned, and a DescribeTable of any table that exists
\* succeeds.
C35_ServerRecovers ==
  (req # Idle /\ resp.kind \in {"err", "panic"}) =>
    /\ ~poisoned
    /\ \A T \in Tables :
         handle_describe_table(manager, poisoned,
                               [table_name |-> T.name]).resp.kind = "ok"

----------------------------------------------------------------------------
(* The sync actor *)

\* the messages the actor has taken from the channel, in order
Taken == handled \o (IF cur = NoMessage THEN <<>> ELSE <<cur>>)

\* C36: the actor holds a message exactly while it handles one; the
\* messages it has taken are the first of the accepted ones, in the order
\* in which their sends completed, each once; until the loop is left the
\* accepted messages not yet taken wait in the channel in that order; and
\* the messages of one handle are handled in the order the task sent them.
C36_HandledInOrder ==
  /\ (actor = "handle") <=> (cur # NoMessage)
  /\ Len(Taken) <= Len(accepted)
  /\ SubSeq(accepted, 1, Len(Taken)) = Taken
  /\ actor # "returned" => accepted = Taken \o rx
  /\ \A i, j \in DOMAIN handled :
       (i < j /\ handled[i].from = handled[j].from)
         => handled[i].n < handled[j].n

\* the actor has handled messages of both handles, two of one of them, and
\* more wait in the channel
C36_Witness ==
  /\ actor = "handle"
  /\ Len(handled) = 3
  /\ { handled[i].from : i \in DOMAIN handled } = Handles
  /\ Len(rx) >= 2

\* C37: the loop of the actor has returned exactly when the last handled
\* message returned Break; no message is handled after one that returned
\* Break; once the loop has returned the channel stays empty, a pending
\* send can complete, and no send ends in a failure of its task; after
\* blocking_recv has returned None (every handle dropped, nothing queued)
\* the loop is still waiting to receive.
C37_ReturnsOnBreak ==
  /\ (actor = "returned")
       <=> (handled # <<>> /\ handle_message(handled[Len(handled)]) = Break)
  /\ \A i \in DOMAIN handled :
       i < Len(handled) => handle_message(handled[i]) = Continue
  /\ actor = "returned" => (rx = <<>> /\ cur = NoMessage)
  /\ \A h \in Handles :
       /\ senders[h].pc # "panicked"
       /\ (actor = "returned" /\ senders[h].pc = "sending")
            => ENABLED SendReturn(h)
  /\ spun => (actor = "recv" /\ rx = <<>>
               /\ \A i \in DOMAIN handled : handle_message(handled[i]) = Continue)

\* the loop has returned on the Shutdown of h1, and the task of h2 has
\* since completed a send that the channel did not take
C37_Witness ==
  /\ actor = "returned"
  /\ Len(handled) = 2
  /\ \A i \in DOMAIN accepted : accepted[i].from = "h1"
  /\ senders["h2"].pc = "idle"
  /\ senders["h2"].n = 1

\* C38: the channel never holds more than ChannelCapacity messages; a send
\* completes on a running actor only when fewer are queued, and puts its
\* message at the end; and while the actor runs a queued message leaves the
\* channel only as the oldest one, into the hands of the actor.
C38_BoundedChannel ==
  [][/\ Len(rx') <= ChannelCapacity
     /\ \A h \in Handles :
          (senders[h].pc = "sending" /\ senders'[h].pc # "sending"
             /\ actor # "returned")
            => (Len(rx) < ChannelCapacity /\ rx' = Append(rx, senders[h].msg))
     /\ (actor' # "returned" /\ rx' # rx)
          => \/ \E h \in Handles : rx' = Append(rx, senders[h].msg)
             \/ rx # <<>> /\ rx' = Tail(rx) /\ cur' = Head(rx)
  ]_vars

\* nine messages were accepted, eight of them are queued and a tenth send
\* waits
C38_Witness ==
  /\ Len(rx) = ChannelCapacity
  /\ Len(accepted) = ChannelCapacity + 1
  /\ actor # "returned"
  /\ \E h \in Handles : senders[h].pc = "sending"

----------------------------------------------------------------------------
(* Readers and writers *)

\* only some of the mutations of a write request have been made: the
\* manager is no longer as the request found it, and the request has
\* mutations left (it is at work, or a panic ended it)
Torn ==
  /\ writer.todo # <<>>
  /\ manager # writer.start

\* C5: a read request that holds its guard never has a manager before it in
\* which only some of the mutations of a write request have been made, and
\* what it has read stays true until it returns.
C5_WritesAtomicForReaders ==
  reader.pc = "holding" =>
    /\ ~Torn
    /\ reader.seen # None => reader.seen[1] = manager

\* a read request waits for the lock while a batch has made the first of its
\* two inserts
C5_Witness ==
  /\ reader.pc = "waiting"
  /\ writer.pc = "holding"
  /\ Len(writer.todo) = 1
  /\ Torn

====
